---- MODULE Spec2Model ----
(***************************************************************************)
(* A model of the Romulus API server (src/api/server.js) and of the        *)
(* services it drives: the PaymentGate credit ledger, the RomulusClient    *)
(* pack registry, the BountyBoard and the ActivityFeed.                    *)
(*                                                                         *)
(* The server is a single Node.js process: a handler runs without          *)
(* interruption from one `await` to the next, so every action below is one *)
(* such synchronous segment of a route handler, and requests interleave    *)
(* only at the awaits (parseBody, the Solana RPC fetch, outbound calls).   *)
(***************************************************************************)
EXTENDS Integers, Sequences, FiniteSets, TLC

(***************************************************************************)
(* Bounds of the model.                                                    *)
(***************************************************************************)
\* requests the clients send in one run
MaxRequests == 3
\* requests that may be in flight (between two awaits) at the same time
MaxInflight == 2
\* clock ticks the run may take (one tick is half a rate-limit window)
MaxTicks == 3

(***************************************************************************)
(* JavaScript Numbers.  amountSOL and the credit computation are IEEE-754   *)
(* binary64 values; a positive double is [e, m] with m its 53 significand  *)
(* bits, most significant (always 1) first, and value m[1].m[2]... * 2^e.  *)
(* Only the operations the ledger uses are modelled: integer / integer,    *)
(* double * integer, Math.floor and <, each correctly rounded to nearest,  *)
(* ties to even.  All intermediate integers stay below 2^31.               *)
(***************************************************************************)
MantissaBits == 53

RECURSIVE IntBits(_)
IntBits(n) == IF n = 0 THEN <<>> ELSE Append(IntBits(n \div 2), n % 2)

RECURSIVE BitsInt(_)
BitsInt(bits) ==
  IF bits = <<>> THEN 0
  ELSE 2 * BitsInt(SubSeq(bits, 1, Len(bits) - 1)) + bits[Len(bits)]

\* bits + 1, one bit longer when every bit was 1
RECURSIVE BitsInc(_)
BitsInc(bits) ==
  IF bits = <<>> THEN <<1>>
  ELSE IF bits[Len(bits)] = 0
       THEN Append(SubSeq(bits, 1, Len(bits) - 1), 1)
       ELSE Append(BitsInc(SubSeq(bits, 1, Len(bits) - 1)), 0)

\* round the exact value bits * 2^(e - Len + 1) (+ something below the last
\* bit when sticky) to 53 bits, to nearest, ties to even
RoundNearestEven(e, bits, sticky) ==
  IF Len(bits) <= MantissaBits
  THEN [e |-> e, m |-> bits \o [i \in 1..(MantissaBits - Len(bits)) |-> 0]]
  ELSE LET m     == SubSeq(bits, 1, MantissaBits)
           guard == bits[MantissaBits + 1]
           rest  == sticky \/ \E i \in (MantissaBits + 2)..Len(bits) : bits[i] = 1
           up    == guard = 1 /\ (rest \/ m[MantissaBits] = 1)
           inc   == BitsInc(m)
       IN  IF ~up THEN [e |-> e, m |-> m]
           ELSE IF Len(inc) > MantissaBits
                THEN [e |-> e + 1, m |-> SubSeq(inc, 1, MantissaBits)]
                ELSE [e |-> e, m |-> inc]

\* long division: extend the quotient bits acc of r/d (r < d) to `want` bits
RECURSIVE DivBits(_, _, _, _)
DivBits(acc, r, d, want) ==
  IF Len(acc) >= want THEN [bits |-> acc, rem |-> r]
  ELSE IF 2 * r >= d
       THEN DivBits(Append(acc, 1), 2 * r - d, d, want)
       ELSE DivBits(Append(acc, 0), 2 * r, d, want)

\* scale r < d up by powers of two until d <= r < 2d
RECURSIVE Lead(_, _, _)
Lead(r, d, e) == IF r >= d THEN [r |-> r, e |-> e] ELSE Lead(2 * r, d, e - 1)

\* the double n / d for integers 0 < n, 0 < d < 2^30
FDiv(n, d) ==
  IF n >= d
  THEN LET ib == IntBits(n \div d)
           q  == DivBits(ib, n % d, d, MantissaBits + 1)
       IN  RoundNearestEven(Len(ib) - 1, q.bits, q.rem > 0)
  ELSE LET l == Lead(n, d, 0)
           q == DivBits(<<1>>, l.r - d, d, MantissaBits + 1)
       IN  RoundNearestEven(l.e, q.bits, q.rem > 0)

\* n as exactly w bits, most significant first (n < 2^w)
PadBits(n, w) == LET b == IntBits(n) IN [i \in 1..(w - Len(b)) |-> 0] \o b

\* 2^w
RECURSIVE Pow2(_)
Pow2(w) == IF w = 0 THEN 1 ELSE 2 * Pow2(w - 1)

\* the exact product bits * k + carry, most significant bit first, computed
\* ten bits at a time from the least significant end
RECURSIVE MulBits(_, _, _)
MulBits(bits, k, carry) ==
  IF bits = <<>> THEN IntBits(carry)
  ELSE LET w     == IF Len(bits) < 10 THEN Len(bits) ELSE 10
           front == SubSeq(bits, 1, Len(bits) - w)
           t     == BitsInt(SubSeq(bits, Len(bits) - w + 1, Len(bits))) * k + carry
       IN  MulBits(front, k, t \div Pow2(w)) \o PadBits(t % Pow2(w), w)

\* the double a * k for a double a and an integer 0 < k < 2^20
FMulInt(a, k) ==
  LET p == MulBits(a.m, k, 0)
  IN  RoundNearestEven(a.e + (Len(p) - MantissaBits), p, FALSE)

\* Math.floor of a double below 2^31
FFloor(a) == IF a.e < 0 THEN 0 ELSE BitsInt(SubSeq(a.m, 1, a.e + 1))

\* a < b on positive doubles
FLess(a, b) ==
  \/ a.e < b.e
  \/ /\ a.e = b.e
     /\ \E i \in 1..MantissaBits :
          /\ a.m[i] < b.m[i]
          /\ \A j \in 1..(i - 1) : a.m[j] = b.m[j]

(***************************************************************************)
(* PaymentGate (src/sdk/payment-gate.js): constants.                       *)
(***************************************************************************)
TREASURY_WALLET == "treasury"
\* the rate of the file's header comment, 0.05 SOL = 50 credits
CreditsPerSolOfHeader == 2 * 500
CREDITS_PER_SOL == 500
\* the literal 0.05 is the double nearest to 5/100
MIN_PURCHASE_SOL == FDiv(5, 100)
LAMPORTS_PER_SOL == 1000000000

Operations == {"wolf_spawn", "bounty_post", "proof_anchor", "agent_hire"}

\* COSTS[operation] || 1
COSTS(operation) ==
  CASE operation = "wolf_spawn"   -> 1
    [] operation = "bounty_post"  -> 1
    [] operation = "proof_anchor" -> 2
    [] operation = "agent_hire"   -> 1
    [] OTHER                      -> 1

(***************************************************************************)
(* The Solana ledger as the RPC's getTransaction reports it.  Each         *)
(* signature names one immutable transaction: its account keys (the first  *)
(* is the fee payer) and the balances before and after, in lamports.       *)
(***************************************************************************)
Wallets == {"w1", "w2"}

TxSigs == {"tA", "tB", "tC", "tD", "tE", "tF"}

Ledger(tx) ==
  CASE tx = "tA" -> \* w1 pays exactly 0.05 SOL
         [err |-> FALSE, accountKeys |-> <<"w1", TREASURY_WALLET, "system">>,
          preBalances  |-> <<90000000, 1000000, 1>>,
          postBalances |-> <<39995000, 51000000, 1>>]
    [] tx = "tB" -> \* w1 pays 2.002 SOL
         [err |-> FALSE, accountKeys |-> <<"w1", TREASURY_WALLET, "system">>,
          preBalances  |-> <<2100000000, 51000000, 1>>,
          postBalances |-> <<97995000, 2053000000, 1>>]
    [] tx = "tC" -> \* w2 pays one lamport less than 0.05 SOL
         [err |-> FALSE, accountKeys |-> <<"w2", TREASURY_WALLET, "system">>,
          preBalances  |-> <<90000000, 1000000, 1>>,
          postBalances |-> <<39995001, 50999999, 1>>]
    [] tx = "tD" -> \* w2 pays 0.059999999 SOL
         [err |-> FALSE, accountKeys |-> <<"w2", "system", TREASURY_WALLET>>,
          preBalances  |-> <<90000000, 1, 1000000>>,
          postBalances |-> <<29995001, 1, 60999999>>]
    [] tx = "tE" -> \* w2 pays somebody else
         [err |-> FALSE, accountKeys |-> <<"w2", "w1", "system">>,
          preBalances  |-> <<90000000, 0, 1>>,
          postBalances |-> <<29995000, 60000000, 1>>]
    [] OTHER     -> \* "tF": w2's payment to the treasury failed on-chain
         [err |-> TRUE, accountKeys |-> <<"w2", TREASURY_WALLET, "system">>,
          preBalances  |-> <<90000000, 1000000, 1>>,
          postBalances |-> <<89995000, 1000000, 1>>]

\* what one getTransaction call can answer for tx: an RPC error, null (the
\* node has not seen the transaction yet) or the transaction
RpcAnswers(tx) ==
  { [error |-> TRUE,  found |-> FALSE, tx |-> Ledger(tx)],
    [error |-> FALSE, found |-> FALSE, tx |-> Ledger(tx)],
    [error |-> FALSE, found |-> TRUE,  tx |-> Ledger(tx)] }

(***************************************************************************)
(* PaymentGate: the key store this.keys and its operations.                *)
(***************************************************************************)
Range(seq) == { seq[i] : i \in 1..Len(seq) }

\* the value loadKeys returns when there is no keys file
EmptyKeys ==
  [issued |-> <<>>, revoked |-> <<>>, transactions |-> <<>>,
   walletToKey |-> <<>>, txToKey |-> <<>>]

\* obj[k] of a JS object used as a map: "" stands for undefined
Lookup(map, k) == IF k \in DOMAIN map THEN map[k] ELSE ""

\* a counter kept per key: 0 where nothing was counted
Lookup0(map, k) == IF k \in DOMAIN map THEN map[k] ELSE 0

\* obj[k] = v
Assign(map, k, v) == (k :> v) @@ map

\* crypto.randomBytes(24): a key no earlier call returned
generateApiKey(keys) == "rml_" \o ToString(Len(keys.issued) + 1)

\* this.keys.issued.find(k => k.apiKey === apiKey && k.status === 'active'),
\* as the index of the record, 0 when there is none
FindActive(keys, apiKey) ==
  LET hits == { i \in 1..Len(keys.issued) :
                  /\ keys.issued[i].apiKey = apiKey
                  /\ keys.issued[i].status = "active" }
  IN  IF hits = {} THEN 0 ELSE CHOOSE i \in hits : \A j \in hits : i <= j

\* verifyPayment up to its await: is the signature already recorded?
verifyPaymentUsed(keys, txSignature) == txSignature \in Range(keys.transactions)

\* the last index of the treasury among the account keys, 0 when absent
TreasuryIndex(accountKeys) ==
  LET hits == { i \in 1..Len(accountKeys) : accountKeys[i] = TREASURY_WALLET }
  IN  IF hits = {} THEN 0 ELSE CHOOSE i \in hits : \A j \in hits : i >= j

Invalid(error) ==
  [valid |-> FALSE, error |-> error, amountSOL |-> MIN_PURCHASE_SOL,
   payerWallet |-> ""]

\* verifyPayment after the RPC answered
verifyPaymentResult(answer) ==
  IF answer.error THEN Invalid("RPC error")
  ELSE IF ~answer.found THEN Invalid("Transaction not found")
  ELSE IF answer.tx.err THEN Invalid("Transaction failed on-chain")
  ELSE LET tx             == answer.tx
           treasuryIndex  == TreasuryIndex(tx.accountKeys)
           payerWallet    == tx.accountKeys[1]
           amountLamports == tx.postBalances[treasuryIndex] - tx.preBalances[treasuryIndex]
           amountSOL      == FDiv(amountLamports, LAMPORTS_PER_SOL)
       IN  IF treasuryIndex = 0 THEN Invalid("Payment must be sent to treasury")
           \* a non-positive amount is below any positive minimum
           ELSE IF amountLamports <= 0 \/ FLess(amountSOL, MIN_PURCHASE_SOL)
                THEN Invalid("Minimum purchase")
           ELSE [valid |-> TRUE, error |-> "", amountSOL |-> amountSOL,
                 payerWallet |-> payerWallet]

Failure(keys, error) ==
  [keys |-> keys, saved |-> FALSE, success |-> FALSE, error |-> error,
   apiKey |-> "", credits |-> 0, isMaster |-> FALSE]

\* a granted purchase as purchaseCredits returns it
Granted(keys, apiKey, creditsToAdd) ==
  [keys |-> keys, saved |-> TRUE, success |-> TRUE, error |-> "",
   apiKey |-> apiKey, credits |-> creditsToAdd, isMaster |-> FALSE]

\* a top-up that assigns the credits where it should add them
topUpAssigns(keys, i, txSignature, creditsToAdd) ==
  Granted([keys EXCEPT
             !.issued[i].credits = creditsToAdd,
             !.issued[i].txHistory = Append(@, txSignature),
             !.txToKey = Assign(@, txSignature, keys.issued[i].apiKey)],
          keys.issued[i].apiKey, creditsToAdd)

\* a top-up that does not map the signature to the key
topUpUnmapped(keys, i, txSignature, creditsToAdd) ==
  Granted([keys EXCEPT
             !.issued[i].credits = @ + creditsToAdd,
             !.issued[i].txHistory = Append(@, txSignature)],
          keys.issued[i].apiKey, creditsToAdd)

\* purchaseCredits, the wallet has a key (issued[i]): auto top-up
topUp(keys, i, txSignature, creditsToAdd) ==
  Granted([keys EXCEPT
             !.issued[i].credits = @ + creditsToAdd,
             !.issued[i].txHistory = Append(@, txSignature),
             !.txToKey = Assign(@, txSignature, keys.issued[i].apiKey)],
          keys.issued[i].apiKey, creditsToAdd)

\* a new key that is not entered in walletToKey
newKeyUnmapped(keys, txSignature, payerWallet, creditsToAdd) ==
  LET apiKey    == "rml_" \o ToString(Len(keys.issued) + 1)
      keyRecord == [apiKey |-> apiKey, payerWallet |-> payerWallet,
                    credits |-> creditsToAdd, totalUsed |-> 0,
                    status |-> "active", txHistory |-> <<txSignature>>]
  IN  Granted([keys EXCEPT !.txToKey = Assign(@, txSignature, apiKey),
                           !.issued = Append(@, keyRecord)],
              apiKey, creditsToAdd)

\* purchaseCredits, a new wallet: a new key
newKey(keys, txSignature, payerWallet, creditsToAdd) ==
  LET apiKey    == generateApiKey(keys)
      keyRecord == [apiKey |-> apiKey, payerWallet |-> payerWallet,
                    credits |-> creditsToAdd, totalUsed |-> 0,
                    status |-> "active", txHistory |-> <<txSignature>>]
  IN  Granted([keys EXCEPT !.txToKey = Assign(@, txSignature, apiKey),
                           !.walletToKey = Assign(@, payerWallet, apiKey),
                           !.issued = Append(@, keyRecord)],
              apiKey, creditsToAdd)

\* purchaseCredits from the point where verifyPayment has returned
purchaseCredits(keys, txSignature, verification) ==
  IF ~verification.valid THEN Failure(keys, verification.error)
  ELSE IF verification.payerWallet = ""
  THEN Failure(keys, "Could not determine payer wallet from transaction")
  ELSE
    LET payerWallet    == verification.payerWallet
        creditsToAdd   == FFloor(FMulInt(verification.amountSOL, CREDITS_PER_SOL))
        pushed         == [keys EXCEPT !.transactions = Append(@, txSignature)]
        existingApiKey == Lookup(pushed.walletToKey, payerWallet)
        i              == IF existingApiKey = "" THEN 0
                          ELSE FindActive(pushed, existingApiKey)
    IN  IF i # 0 THEN topUp(pushed, i, txSignature, creditsToAdd)
        ELSE newKey(pushed, txSignature, payerWallet, creditsToAdd)

\* useCredits that skips the balance check
useCreditsUnchecked(keys, masterKey, apiKey, operation) ==
  LET cost == COSTS(operation)
      i    == FindActive(keys, apiKey)
  IN  IF masterKey # "" /\ apiKey = masterKey
      THEN [keys |-> keys, saved |-> FALSE, success |-> TRUE, error |-> "",
            apiKey |-> apiKey, credits |-> 0, isMaster |-> TRUE]
      ELSE IF i = 0 THEN Failure(keys, "Invalid API key")
      ELSE [keys |-> [keys EXCEPT !.issued[i].credits = @ - cost,
                                  !.issued[i].totalUsed = @ + cost],
            saved |-> TRUE, success |-> TRUE, error |-> "",
            apiKey |-> apiKey, credits |-> cost, isMaster |-> FALSE]

\* useCredits(apiKey, operation), with process.env.ROMULUS_MASTER_KEY
\* ("" when unset)
useCredits(keys, masterKey, apiKey, operation) ==
  LET cost == COSTS(operation)
      i    == FindActive(keys, apiKey)
  IN  IF masterKey # "" /\ apiKey = masterKey
      THEN [keys |-> keys, saved |-> FALSE, success |-> TRUE, error |-> "",
            apiKey |-> apiKey, credits |-> 0, isMaster |-> TRUE]
      ELSE IF i = 0 THEN Failure(keys, "Invalid API key")
      ELSE IF keys.issued[i].credits < cost
      THEN Failure(keys, "Insufficient credits")
      ELSE [keys |-> [keys EXCEPT !.issued[i].credits = @ - cost,
                                  !.issued[i].totalUsed = @ + cost],
            saved |-> TRUE, success |-> TRUE, error |-> "",
            apiKey |-> apiKey, credits |-> cost, isMaster |-> FALSE]

\* a validateKey that turns away a key without credits
validateKeyWithCredits(keys, masterKey, apiKey) ==
  \/ masterKey # "" /\ apiKey = masterKey
  \/ /\ FindActive(keys, apiKey) # 0
     /\ keys.issued[FindActive(keys, apiKey)].credits > 0

\* the last of a set of indices
Last(indices) == CHOOSE i \in indices : \A j \in indices : j <= i

\* loadKeys(): the keys file as it was written; a file of an earlier
\* version, without walletToKey or txToKey, has them rebuilt from the
\* records, a later record overriding an earlier one
loadKeys(file) ==
  LET all     == 1..Len(file.issued)
      paid    == { i \in all : /\ file.issued[i].payerWallet \notin {"", "unknown"}
                               /\ file.issued[i].status = "active" }
      wallets == [w \in { file.issued[i].payerWallet : i \in paid } |->
                    file.issued[Last({ i \in paid :
                                         file.issued[i].payerWallet = w })].apiKey]
      txs     == [tx \in UNION { Range(file.issued[i].txHistory) : i \in all } |->
                    file.issued[Last({ i \in all :
                                         tx \in Range(file.issued[i].txHistory) })].apiKey]
  IN  [issued |-> file.issued, revoked |-> file.revoked,
       transactions |-> file.transactions,
       walletToKey |-> IF "walletToKey" \in DOMAIN file THEN file.walletToKey
                       ELSE wallets,
       txToKey |-> IF "txToKey" \in DOMAIN file THEN file.txToKey ELSE txs]

\* validateKey(apiKey).valid
validateKey(keys, masterKey, apiKey) ==
  \/ masterKey # "" /\ apiKey = masterKey
  \/ FindActive(keys, apiKey) # 0

\* this.keys.issued.find(k => k.apiKey === apiKey), as an index
FindKey(keys, apiKey) ==
  LET hits == { i \in 1..Len(keys.issued) : keys.issued[i].apiKey = apiKey }
  IN  IF hits = {} THEN 0 ELSE CHOOSE i \in hits : \A j \in hits : i <= j

\* the record issued[i] as the recovery functions return it
Recovered(keys, i, saved) ==
  [keys |-> keys, saved |-> saved, success |-> TRUE, error |-> "",
   apiKey |-> keys.issued[i].apiKey, credits |-> keys.issued[i].credits,
   isMaster |-> FALSE]

\* recoverKey, the signature is in txToKey: the fast path
recoverKeyMapped(keys, txSignature) ==
  LET apiKey == Lookup(keys.txToKey, txSignature)
      i      == FindKey(keys, apiKey)
  IN  IF i = 0
      THEN Failure(keys, "Key record not found (may have been revoked)")
      ELSE IF keys.issued[i].status # "active"
      THEN Failure(keys, "This API key has been revoked")
      ELSE Recovered(keys, i, FALSE)

\* recoverKey, the signature is not in txToKey and the RPC has answered:
\* the key of the wallet that paid the transaction's fee
recoverKeyFetched(keys, txSignature, answer) ==
  IF answer.error THEN Failure(keys, "Recovery failed")
  ELSE IF ~answer.found THEN Failure(keys, "Transaction not found on-chain")
  ELSE LET payerWallet == answer.tx.accountKeys[1]
           apiKey      == Lookup(keys.walletToKey, payerWallet)
           i           == FindKey(keys, apiKey)
       IN  IF apiKey # "" /\ i # 0 /\ keys.issued[i].status = "active"
           THEN Recovered([keys EXCEPT
                             !.txToKey = Assign(@, txSignature, apiKey)],
                          i, TRUE)
           ELSE Failure(keys, "No API key found for wallet")

\* recoverKey(txSignature), given what the RPC answers if it is asked
recoverKey(keys, txSignature, answer) ==
  IF Lookup(keys.txToKey, txSignature) # ""
  THEN recoverKeyMapped(keys, txSignature)
  ELSE recoverKeyFetched(keys, txSignature, answer)

\* recoverByWallet(walletAddress)
recoverByWallet(keys, walletAddress) ==
  LET apiKey == Lookup(keys.walletToKey, walletAddress)
      i      == FindKey(keys, apiKey)
  IN  IF apiKey = "" THEN Failure(keys, "No API key found for this wallet")
      ELSE IF i = 0 THEN Failure(keys, "Key record not found")
      ELSE IF keys.issued[i].status # "active"
      THEN Failure(keys, "This API key has been revoked")
      ELSE Recovered(keys, i, FALSE)

(***************************************************************************)
(* RomulusClient (src/sdk/romulus-client.js): the pack registry.           *)
(***************************************************************************)
EmptyRegistry == [packs |-> <<>>, totalWolvesSpawned |-> 0, totalHunts |-> 0]

\* registerPack(packConfig): the ids are random, so new ones are fresh
registerPack(registry, name, time) ==
  LET n    == Len(registry.packs) + 1
      pack == [id |-> "pack-" \o ToString(n), name |-> name,
               apiKey |-> "rml_pack_" \o ToString(n), createdAt |-> time,
               stats |-> [wolvesSpawned |-> 0, huntsCompleted |-> 0],
               wolves |-> <<>>]
  IN  [registry EXCEPT !.packs = Append(@, pack)]

\* getPack(identifier), as the index of the pack, 0 when there is none
getPack(registry, identifier) ==
  LET hits == { i \in 1..Len(registry.packs) :
                  \/ registry.packs[i].id = identifier
                  \/ registry.packs[i].apiKey = identifier }
  IN  IF hits = {} THEN 0 ELSE CHOOSE i \in hits : \A j \in hits : i <= j

\* spawnWolf(packId, wolfConfig)
spawnWolf(registry, packId, time) ==
  LET i    == getPack(registry, packId)
      wolf == [id |-> "wolf-" \o ToString(registry.totalWolvesSpawned + 1),
               packId |-> registry.packs[i].id, status |-> "spawned",
               spawnedAt |-> time]
  IN  IF i = 0 THEN [registry |-> registry, error |-> "Pack not found"]
      ELSE [registry |-> [registry EXCEPT
                            !.packs[i].wolves = Append(@, wolf),
                            !.packs[i].stats.wolvesSpawned = @ + 1,
                            !.totalWolvesSpawned = @ + 1],
            error |-> ""]

\* completeHunt(wolfId, result): the first pack holding the wolf
HuntPack(registry, wolfId) ==
  LET hits == { i \in 1..Len(registry.packs) :
                  \E j \in 1..Len(registry.packs[i].wolves) :
                    registry.packs[i].wolves[j].id = wolfId }
  IN  IF hits = {} THEN 0 ELSE CHOOSE i \in hits : \A k \in hits : i <= k

completeHunt(registry, wolfId) ==
  LET i == HuntPack(registry, wolfId)
      j == CHOOSE k \in 1..Len(registry.packs[i].wolves) :
             /\ registry.packs[i].wolves[k].id = wolfId
             /\ \A l \in 1..(k - 1) : registry.packs[i].wolves[l].id # wolfId
  IN  IF i = 0 THEN [registry |-> registry, error |-> "Wolf not found"]
      ELSE [registry |-> [registry EXCEPT
                            !.packs[i].wolves[j].status = "completed",
                            !.packs[i].stats.huntsCompleted = @ + 1,
                            !.totalHunts = @ + 1],
            error |-> ""]

(***************************************************************************)
(* BountyBoard (src/sdk/bounty-board.js).                                  *)
(***************************************************************************)
EmptyBoard ==
  [bounties |-> <<>>, totalPosted |-> 0, totalCompleted |-> 0,
   totalPaidOut |-> 0]

\* this.registry.bounties.find(b => b.id === bountyId), as an index
FindBounty(board, bountyId) ==
  LET hits == { i \in 1..Len(board.bounties) : board.bounties[i].id = bountyId }
  IN  IF hits = {} THEN 0 ELSE CHOOSE i \in hits : \A j \in hits : i <= j

\* postBounty(bountyConfig): the ids are random, so new ones are fresh
postBounty(board, title, reward) ==
  LET bounty == [id |-> "bounty-" \o ToString(Len(board.bounties) + 1),
                 title |-> title, reward |-> reward, status |-> "open",
                 claimedBy |-> "", claimedWallet |-> "", claimedAt |-> <<>>,
                 proof |-> "", verifiedBy |-> ""]
  IN  [board EXCEPT !.bounties = Append(@, bounty), !.totalPosted = @ + 1]

\* a claimBounty that does not ask for the status
claimBountyAnyStatus(board, bountyId, wolfId, wolfWallet, time) ==
  LET i == FindBounty(board, bountyId)
  IN  IF i = 0 THEN [board |-> board, success |-> FALSE, threw |-> FALSE]
      ELSE [board |-> [board EXCEPT !.bounties[i].status = "claimed",
                                    !.bounties[i].claimedBy = wolfId,
                                    !.bounties[i].claimedWallet = wolfWallet,
                                    !.bounties[i].claimedAt = <<time>>],
            success |-> TRUE, threw |-> FALSE]

\* claimBounty(bountyId, wolfId, wolfWallet) at Date `time`; claimedAt is
\* <<>> while it is null
claimBounty(board, bountyId, wolfId, wolfWallet, time) ==
  LET i == FindBounty(board, bountyId)
  IN  IF i = 0 THEN [board |-> board, success |-> FALSE, threw |-> FALSE]
      ELSE IF board.bounties[i].status # "open"
      THEN [board |-> board, success |-> FALSE, threw |-> FALSE]
      ELSE [board |-> [board EXCEPT !.bounties[i].status = "claimed",
                                    !.bounties[i].claimedBy = wolfId,
                                    !.bounties[i].claimedWallet = wolfWallet,
                                    !.bounties[i].claimedAt = <<time>>],
            success |-> TRUE, threw |-> FALSE]

\* a proof as the caller hands it in: "" when there is none, an object
\* with a `data` member, or a value without one (an object with notes only,
\* a string, a number)
ProofWithData == "{data, notes}"
ProofWithoutData == "{notes}"

\* submitCompletion(bountyId, wolfId, proof).  The status is assigned
\* before bounty.proof is built; proof.data of no proof at all, and the
\* hash of JSON.stringify(undefined), throw a TypeError at that point, with
\* the status changed in memory, proof still null and nothing saved
submitCompletion(board, bountyId, wolfId, proof) ==
  LET i == FindBounty(board, bountyId)
  IN  IF i = 0 THEN [board |-> board, success |-> FALSE, threw |-> FALSE]
      ELSE IF board.bounties[i].status # "claimed"
      THEN [board |-> board, success |-> FALSE, threw |-> FALSE]
      ELSE IF board.bounties[i].claimedBy # wolfId
      THEN [board |-> board, success |-> FALSE, threw |-> FALSE]
      ELSE IF proof # ProofWithData
      THEN [board |-> [board EXCEPT
                         !.bounties[i].status = "pending_verification"],
            success |-> FALSE, threw |-> TRUE]
      ELSE [board |-> [board EXCEPT
                         !.bounties[i].status = "pending_verification",
                         !.bounties[i].proof = proof],
            success |-> TRUE, threw |-> FALSE]

\* a verifyCompletion that does not ask for the status
verifyCompletionAnyStatus(board, bountyId, verifierId, approved) ==
  LET i == FindBounty(board, bountyId)
  IN  IF i = 0 THEN [board |-> board, success |-> FALSE, threw |-> FALSE]
      ELSE IF approved
      THEN [board |-> [board EXCEPT
                         !.bounties[i].status = "completed",
                         !.bounties[i].verifiedBy = verifierId,
                         !.totalCompleted = @ + 1,
                         !.totalPaidOut = @ + board.bounties[i].reward],
            success |-> TRUE, threw |-> FALSE]
      ELSE [board |-> [board EXCEPT !.bounties[i].status = "disputed"],
            success |-> TRUE, threw |-> FALSE]

\* verifyCompletion(bountyId, verifierId, approved)
verifyCompletion(board, bountyId, verifierId, approved) ==
  LET i == FindBounty(board, bountyId)
  IN  IF i = 0 THEN [board |-> board, success |-> FALSE, threw |-> FALSE]
      ELSE IF board.bounties[i].status # "pending_verification"
      THEN [board |-> board, success |-> FALSE, threw |-> FALSE]
      ELSE IF approved
      THEN [board |-> [board EXCEPT
                         !.bounties[i].status = "completed",
                         !.bounties[i].verifiedBy = verifierId,
                         !.totalCompleted = @ + 1,
                         !.totalPaidOut = @ + board.bounties[i].reward],
            success |-> TRUE, threw |-> FALSE]
      ELSE [board |-> [board EXCEPT !.bounties[i].status = "disputed"],
            success |-> TRUE, threw |-> FALSE]

\* bounties.filter(b => b.status === status)
\*         .reduce((sum, b) => sum + b.reward, 0)
RECURSIVE RewardsOf(_, _)
RewardsOf(bounties, status) ==
  IF bounties = <<>> THEN 0
  ELSE (IF Head(bounties).status = status THEN Head(bounties).reward ELSE 0)
       + RewardsOf(Tail(bounties), status)

\* bounties.filter(b => b.status === status).length
CountOf(bounties, status) ==
  Cardinality({ i \in 1..Len(bounties) : bounties[i].status = status })

\* getStats()
getStats(board) ==
  [totalBounties |-> board.totalPosted,
   openBounties |-> CountOf(board.bounties, "open"),
   claimedBounties |-> CountOf(board.bounties, "claimed"),
   completedBounties |-> board.totalCompleted,
   totalPaidOut |-> board.totalPaidOut,
   currentRewardPool |-> RewardsOf(board.bounties, "open")]

(***************************************************************************)
(* AgentCommerce (src/unnamed/part_006, the server's sdk/agent-commerce).  *)
(* Payments are whole SOL; wallet tells whether a payment wallet is        *)
(* configured.                                                             *)
(***************************************************************************)
\* AGENT_DIRECTORY: agent id -> wallet ("" where none is known)
AGENT_DIRECTORY ==
  [a \in {"solanayield", "said-protocol", "agentdex"} |-> ""]

EmptyCommerce ==
  [contracts |-> <<>>, payments |-> <<>>, totalPaid |-> 0,
   agentRelationships |-> <<>>]

\* registerAgent(agentId, agentInfo)
registerAgent(agentDirectory, agentId, wallet) ==
  Assign(agentDirectory, agentId, wallet)

\* createContract(contractConfig)
createContract(commerce, agentId, providerWallet, payment) ==
  LET contract == [id |-> "contract-" \o ToString(Len(commerce.contracts) + 1),
                   provider |-> agentId, providerWallet |-> providerWallet,
                   payment |-> payment, status |-> "proposed"]
  IN  [commerce EXCEPT !.contracts = Append(@, contract)]

\* this.registry.contracts.find(c => c.id === contractId), as an index
FindContract(commerce, contractId) ==
  LET hits == { i \in 1..Len(commerce.contracts) :
                  commerce.contracts[i].id = contractId }
  IN  IF hits = {} THEN 0 ELSE CHOOSE i \in hits : \A j \in hits : i <= j

\* requestWork(contractId) after its fetch: answered, or failed
requestWorkDone(commerce, i, answered) ==
  [commerce EXCEPT !.contracts[i].status =
                      IF answered THEN "completed" ELSE "failed"]

\* payAgent(contractId) up to its await: may the payment be sent?
payAgentReady(commerce, wallet, contractId) ==
  LET i == FindContract(commerce, contractId)
  IN  /\ i # 0
      /\ commerce.contracts[i].status = "completed"
      /\ commerce.contracts[i].providerWallet # ""
      /\ wallet

\* payAgent(contractId) after the transaction was confirmed
payAgentDone(commerce, i) ==
  LET contract == commerce.contracts[i]
      before   == IF contract.provider \in DOMAIN commerce.agentRelationships
                  THEN commerce.agentRelationships[contract.provider]
                  ELSE [contracts |-> 0, totalPaid |-> 0]
  IN  [commerce EXCEPT
         !.contracts[i].status = "paid",
         !.payments = Append(@, [contractId |-> contract.id,
                                 to |-> contract.providerWallet,
                                 amount |-> contract.payment]),
         !.totalPaid = @ + contract.payment,
         !.agentRelationships =
            Assign(@, contract.provider,
                   [contracts |-> before.contracts + 1,
                    totalPaid |-> before.totalPaid + contract.payment])]

(***************************************************************************)
(* ActivityFeed (src/sdk/activity-feed.js).                                *)
(***************************************************************************)
MAX_EVENTS == 1000

EmptyEvents == [events |-> <<>>, lastId |-> 0]

\* log(type, data), with the trim saveEvents does before it writes
log(feed, type) ==
  LET id     == feed.lastId + 1
      pushed == Append(feed.events, [id |-> id, type |-> type])
  IN  [events |-> IF Len(pushed) > MAX_EVENTS
                  THEN SubSeq(pushed, Len(pushed) - MAX_EVENTS + 1, Len(pushed))
                  ELSE pushed,
       lastId |-> id]

(***************************************************************************)
(* The API server (src/api/server.js).                                     *)
(***************************************************************************)
RATE_LIMIT_WINDOW == 60 * 60 * 1000
RATE_LIMIT_MAX == 3

\* one tick of the model's clock, in milliseconds
TickMs == RATE_LIMIT_WINDOW \div 2

VARIABLES
  masterKey,             \* process.env.ROMULUS_MASTER_KEY, "" when unset
  requireAuth,           \* REQUIRE_AUTH
  wallet,                \* agentCommerce.wallet: is a payment wallet loaded?
  now,                   \* Date.now()
  keys,                  \* paymentGate.keys
  registry,              \* romulus.registry
  board,                 \* bountyBoard.registry
  commerce,              \* agentCommerce.registry
  agentDirectory,        \* agentCommerce.agentDirectory (in memory only)
  feed,                  \* activityFeed.events
  files,                 \* the JSON files the services write
  registrationAttempts,  \* IP -> timestamps
  reqs,                  \* the requests in flight, by slot
  sent,                  \* requests received so far
  lastStatus,            \* the status of the response written last
  served,                \* <<key, operation>> -> priced calls answered 2xx
  registrations,         \* the registrations answered 201: [ip, at]
  treasury,              \* the TreasuryWolf process, its wallet and its log
  executor,              \* the WolfExecutor instance and its calls
  second,                \* a second process over the same JSON files
  hunts,                 \* the ProofOfHunt process and the memos on chain
  recovered,             \* what the recovery calls on the PaymentGate returned
  agent                  \* the ATPAgent of the SDK, its treasury and factory

vars == <<masterKey, requireAuth, wallet, now, keys, registry, board, commerce,
          agentDirectory, feed, files, registrationAttempts, reqs, sent,
          lastStatus, served, registrations, treasury, executor, second,
          hunts, recovered, agent>>

\* what is fixed when the process starts, and the clock
config == <<masterKey, requireAuth, wallet, now>>

\* the services' state, in memory and on disk
services == <<keys, registry, board, commerce, agentDirectory, feed, files,
              registrationAttempts>>

\* the API server's own state
server == <<config, services, reqs, sent, lastStatus, served, registrations>>

\* the processes and instances beside the API server
scripts == <<treasury, executor, second, hunts, recovered, agent>>

Slots == 1..MaxInflight

IPs == {"10.0.0.1", "10.0.0.2"}

NoHeaders == [scheme |-> "", rest |-> "", xApiKey |-> ""]

\* Authorization: Bearer <key>
Bearer(key) == [scheme |-> "Bearer", rest |-> key, xApiKey |-> ""]

\* X-API-Key: <key>
XApiKey(key) == [scheme |-> "", rest |-> "", xApiKey |-> key]

\* X-API-Key: <key> beside an Authorization header of another scheme, whose
\* text after the seventh character is "cjpwdw=="
BasicAnd(key) == [scheme |-> "Basic", rest |-> "cjpwdw==", xApiKey |-> key]

\* a parsed body: up to three fields the handler reads, "" where absent;
\* ~valid is a body JSON.parse rejects
Body(valid, arg, arg2, arg3) ==
  [valid |-> valid, arg |-> arg, arg2 |-> arg2, arg3 |-> arg3]

\* a free slot
Idle == [route |-> "", pc |-> "idle", key |-> "", ip |-> "",
         body |-> Body(TRUE, "", "", "")]

\* the handler of a request is suspended at an await: what it still holds
Suspended(route, pc, key, ip, body) ==
  [route |-> route, pc |-> pc, key |-> key, ip |-> ip, body |-> body]

\* requests are anonymous: a new one takes the first free slot
Free(r) ==
  /\ reqs[r].pc = "idle"
  /\ \A o \in Slots : o < r => reqs[o].pc # "idle"

\* the keys a client may present: none, a made-up one, the word the master
\* key is when configured, and every key issued so far
IssuedKeys == { keys.issued[i].apiKey : i \in 1..Len(keys.issued) }

PresentedHeaders ==
  {NoHeaders, Bearer("rml_bogus"), XApiKey("rml_bogus"),
   Bearer("master-secret")}
    \cup { Bearer(k) : k \in IssuedKeys }
    \cup { XApiKey(k) : k \in IssuedKeys }
    \cup { BasicAnd(k) : k \in IssuedKeys }

\* request bodies: unparsable JSON, an object without the required fields,
\* or one holding them
Bodies(args) ==
  { Body(FALSE, "", "", ""), Body(TRUE, "", "", "") }
    \cup { Body(TRUE, a, "", "") : a \in args }

Bodies3(args, args2, args3) ==
  { Body(FALSE, "", "", ""), Body(TRUE, "", "", "") }
    \cup { Body(TRUE, a, b, c) : a \in args, b \in args2, c \in args3 }

\* the key checkAuth extracts from the headers ("" when there is none)
AuthKey(headers) ==
  IF headers.scheme = "Bearer" THEN headers.rest ELSE headers.xApiKey

\* checkAuth that lets a request without any key pass
checkAuthMissingKeyPasses(headers) ==
  IF ~requireAuth THEN TRUE
  ELSE LET apiKey == AuthKey(headers)
       IN  IF apiKey = "" THEN TRUE
           ELSE IF masterKey # "" /\ apiKey = masterKey THEN TRUE
           ELSE validateKey(keys, masterKey, apiKey)

\* checkAuth(req).authorized
checkAuth(headers) ==
  IF ~requireAuth THEN TRUE
  ELSE LET apiKey == AuthKey(headers)
       IN  IF apiKey = "" THEN FALSE
           ELSE IF masterKey # "" /\ apiKey = masterKey THEN TRUE
           ELSE validateKey(keys, masterKey, apiKey)

\* req.headers['authorization']?.slice(7) || req.headers['x-api-key']
SlicedKey(headers) ==
  IF headers.scheme # "" /\ headers.rest # "" THEN headers.rest
  ELSE headers.xApiKey

\* the attempts checkRateLimit(ip) keeps: those of the last window
RecentAttempts(ip) ==
  LET RECURSIVE Keep(_)
      Keep(ts) == IF ts = <<>> THEN <<>>
                  ELSE IF now - Head(ts) < RATE_LIMIT_WINDOW
                       THEN <<Head(ts)>> \o Keep(Tail(ts))
                       ELSE Keep(Tail(ts))
  IN  Keep(registrationAttempts[ip])

\* checkRateLimit(ip), its verdict
checkRateLimit(ip) == Len(RecentAttempts(ip)) < RATE_LIMIT_MAX

\* one more priced call of `operation` answered 2xx to the presenter of `key`
Serve(key, operation) ==
  Assign(served, <<key, operation>>, Lookup0(served, <<key, operation>>) + 1)

\* jsonResponse(res, data, status): the handler in slot r ends
Respond(r, status) ==
  /\ reqs' = [reqs EXCEPT ![r] = Idle]
  /\ lastStatus' = status
  /\ UNCHANGED scripts

\* the handler in slot r is suspended at an await
Await(r, q) ==
  /\ reqs' = [reqs EXCEPT ![r] = q]
  /\ UNCHANGED <<lastStatus, scripts>>

\* the handler in slot r resumes from the await `pc` of `route`
At(r, route, pc) == reqs[r].route = route /\ reqs[r].pc = pc

\* the services as their constructors leave them when no file exists
Booted ==
  /\ now = 0
  /\ keys = EmptyKeys
  /\ registry = EmptyRegistry
  /\ board = EmptyBoard
  /\ commerce = EmptyCommerce
  /\ agentDirectory = AGENT_DIRECTORY
  /\ feed = EmptyEvents
  /\ files = [keys |-> EmptyKeys, packs |-> EmptyRegistry,
              bounties |-> EmptyBoard, commerce |-> EmptyCommerce,
              activity |-> EmptyEvents]
  /\ registrationAttempts = [ip \in IPs |-> <<>>]
  /\ reqs = [r \in Slots |-> Idle]
  /\ sent = 0
  /\ lastStatus = 0
  /\ served = <<>>
  /\ registrations = <<>>

(***************************************************************************)
(* The processes beside the API server, before any of them has run.        *)
(***************************************************************************)
\* the slots of the calls in flight on one instance
Calls == 1..MaxInflight

\* no call is in flight in that slot
NoCall == [pc |-> "idle"]

\* a call takes the first free slot
FreeCall(calls, c) ==
  /\ calls[c].pc = "idle"
  /\ \A o \in Calls : o < c => calls[o].pc # "idle"

\* no buyDarkflobi call is in flight in that slot
NoOrder == [pc |-> "idle", amount |-> 0, sig |-> ""]

\* what the last buyDarkflobi call returned, and what it had done by then
NoResult == [success |-> FALSE, blocked |-> FALSE, threw |-> FALSE,
             sent |-> FALSE, logged |-> FALSE]

\* TreasuryWolf after init() over a wallet of `balance` and no spend log
TreasuryWolfInit(balance) ==
  [balance |-> balance, spendLog |-> <<>>, file |-> <<>>,
   now |-> 0, orders |-> [c \in Calls |-> NoOrder], ordered |-> 0,
   swaps |-> <<>>, lastResult |-> NoResult]

\* no execute call is in flight in that slot
NoChat == [pc |-> "idle", wolfId |-> "", history |-> 0, tool |-> ""]

\* a new WolfExecutor, with ANTHROPIC_API_KEY and BRAVE_API_KEY set or not
WolfExecutorInit(anthropicKey, braveKey) ==
  [anthropicKey |-> anthropicKey, braveKey |-> braveKey, now |-> 0,
   rateLimits |-> <<>>, conversations |-> <<>>, arrays |-> <<>>,
   chats |-> [c \in Calls |-> NoChat], executed |-> 0,
   passed |-> <<>>, refused |-> <<>>, toolUses |-> <<>>,
   requests |-> [claude |-> 0, moltbook |-> 0, brave |-> 0]]

ExecutorInit == WolfExecutorInit(FALSE, FALSE)

\* a command-line run of one service's module: not started, or holding the
\* state its constructor loaded, with `left` mutating calls still to make
NoRun == [pc |-> "off", memory |-> <<>>, left |-> 0, runs |-> 0]

\* `node bounty-board.js post`, `node romulus-client.js register` and
\* `node activity-feed.js test`, by the file each one works on
SecondInit == [bounties |-> NoRun, packs |-> NoRun, activity |-> NoRun]

\* no logHunt call is in flight in that slot
NoHunt == [pc |-> "idle", wolfType |-> <<>>, result |-> <<>>,
           huntData |-> <<>>, memo |-> <<>>]

\* ProofOfHunt after init() without a hunt log; the chain holds the
\* transactions of others, here one transfer that carries no memo
HuntsInit ==
  [now |-> 0, huntLog |-> <<>>, file |-> <<>>,
   chain |-> << [signature |-> "sig-transfer", memo |-> FALSE,
                 data |-> <<>>] >>,
   calls |-> [c \in Calls |-> NoHunt], logged |-> 0,
   returned |-> <<>>, verifications |-> <<>>]

\* no recoverKey call is in flight in that slot
NoRecovery == [pc |-> "idle", txSignature |-> ""]

\* nothing was recovered yet
NoAnswer == [asked |-> "", success |-> FALSE, apiKey |-> "", credits |-> 0]

\* the recovery calls made on the PaymentGate so far, and what the last
\* call of each kind returned
RecoveredInit ==
  [calls |-> [c \in Calls |-> NoRecovery], made |-> 0,
   byTx |-> NoAnswer, byWallet |-> NoAnswer]

(***************************************************************************)
(* The SDK (src/sdk/index.js, src/sdk/agent-factory.js): an ATPAgent, the  *)
(* Treasury handed to it and its AgentFactory.  Budgets and balances are   *)
(* whole amounts.                                                          *)
(***************************************************************************)
\* config.treasury || null
NoTreasury == [configured |-> FALSE, balance |-> 0, spent |-> 0]

\* new Treasury(config)
Treasury == [configured |-> TRUE, balance |-> 0, spent |-> 0]

\* the treasury once it holds `amount`: the balance stands for what the
\* treasury address holds on chain, and nothing in the SDK sets it
Funded(amount) == [Treasury EXCEPT !.balance = amount]

\* Treasury.checkBudget(amount)
checkBudget(t, amount) == t.balance >= amount

\* AgentFactory.spawn(type, config): the record pushed on spawnHistory
factorySpawn(spawnHistory, type, budget) ==
  Append(spawnHistory, [type |-> type, budget |-> budget,
                        status |-> "pending"])

\* no spawn call in the slot
NoSpawn == [pc |-> "idle", budget |-> 0, canSpend |-> FALSE]

\* before new ATPAgent(config)
NoAgent ==
  [constructed |-> FALSE, treasury |-> NoTreasury,
   metrics |-> [totalSpawned |-> 0, totalSpent |-> 0],
   spawnHistory |-> <<>>, calls |-> [c \in Calls |-> NoSpawn], made |-> 0]

\* none of the scripts runs
ScriptsIdle ==
  /\ treasury = TreasuryWolfInit(0)
  /\ executor = ExecutorInit
  /\ second = SecondInit
  /\ hunts = HuntsInit
  /\ recovered = RecoveredInit
  /\ agent = NoAgent

\* the default deployment: authentication on, no payment wallet
Init ==
  /\ masterKey \in {"", "master-secret"}
  /\ requireAuth = TRUE
  /\ wallet = FALSE
  /\ Booted
  /\ ScriptsIdle

\* what an earlier run of the server left in its files: w1 bought 25
\* credits and spawned a wolf in its pack, a bounty is open, and the agent
\* "helper" was hired for 1 SOL and has delivered
EarlierKeys ==
  useCredits(
    purchaseCredits(EmptyKeys, "tA",
                    verifyPaymentResult([error |-> FALSE, found |-> TRUE,
                                         tx |-> Ledger("tA")])).keys,
    "", "rml_1", "wolf_spawn").keys

EarlierRegistry ==
  spawnWolf(registerPack(EmptyRegistry, "my-pack", 0), "pack-1", 0).registry

EarlierBoard == postBounty(EmptyBoard, "find alpha", 0)

EarlierCommerce ==
  requestWorkDone(createContract(EmptyCommerce, "helper", "helper-wallet", 1),
                  1, TRUE)

EarlierEvents == log(log(EmptyEvents, "credits_purchased"), "agent_hired")

\* the server restarted over those files, in any deployment with
\* authentication on
InitApi ==
  /\ masterKey \in {"", "master-secret"}
  /\ requireAuth = TRUE
  /\ wallet \in BOOLEAN
  /\ now = 0
  /\ keys = EarlierKeys
  /\ registry = EarlierRegistry
  /\ board = EarlierBoard
  /\ commerce = EarlierCommerce
  /\ agentDirectory = AGENT_DIRECTORY
  /\ feed = EarlierEvents
  /\ files = [keys |-> EarlierKeys, packs |-> EarlierRegistry,
              bounties |-> EarlierBoard, commerce |-> EarlierCommerce,
              activity |-> EarlierEvents]
  /\ registrationAttempts = [ip \in IPs |-> <<>>]
  /\ reqs = [r \in Slots |-> Idle]
  /\ sent = 0
  /\ lastStatus = 0
  /\ served = <<>>
  /\ registrations = <<>>
  /\ ScriptsIdle

\* the clock advances
Tick ==
  /\ now < MaxTicks * TickMs
  /\ now' = now + TickMs
  /\ UNCHANGED <<masterKey, requireAuth, wallet, keys, registry, board,
                 commerce, agentDirectory, feed, files, registrationAttempts,
                 reqs, sent, lastStatus, served, registrations, scripts>>

(***************************************************************************)
(* POST /access/purchase (public).  Nothing is read before the body has    *)
(* arrived, so the arrival and the segment after `await parseBody` are one *)
(* step: it ends at the RPC fetch inside verifyPayment.                    *)
(***************************************************************************)
PurchaseRequest(r, headers, body) ==
  /\ Free(r)
  /\ sent' = sent + 1
  /\ IF ~body.valid THEN Respond(r, 500)
     ELSE IF body.arg = "" THEN Respond(r, 400)
     ELSE IF verifyPaymentUsed(keys, body.arg)
     THEN \* purchaseCredits fails: 'Transaction already used'
          Respond(r, 400)
     ELSE Await(r, Suspended("POST /access/purchase", "rpc", "", "", body))
  /\ UNCHANGED <<config, keys, registry, board, commerce, agentDirectory,
                 feed, files, registrationAttempts, served, registrations>>

\* the RPC answers: the rest of verifyPayment, purchaseCredits and the route
PurchaseVerified(r, answer) ==
  /\ At(r, "POST /access/purchase", "rpc")
  /\ LET result == purchaseCredits(keys, reqs[r].body.arg,
                                   verifyPaymentResult(answer))
         logged == log(feed, "credits_purchased")
     IN  /\ keys' = result.keys
         /\ IF result.success
            THEN /\ feed' = logged
                 /\ files' = [files EXCEPT !.keys = result.keys,
                                           !.activity = logged]
                 /\ Respond(r, 201)
            ELSE /\ UNCHANGED <<feed, files>>
                 /\ Respond(r, 400)
  /\ UNCHANGED <<config, registry, board, commerce, agentDirectory,
                 registrationAttempts, sent, served, registrations>>

(***************************************************************************)
(* POST /packs/register (protected, rate limited).                         *)
(***************************************************************************)
RegisterRequest(r, headers, ip, body) ==
  /\ Free(r)
  /\ sent' = sent + 1
  /\ IF ~checkAuth(headers)
     THEN /\ Respond(r, 401)
          /\ UNCHANGED registrationAttempts
     ELSE /\ registrationAttempts' =
               [registrationAttempts EXCEPT ![ip] = RecentAttempts(ip)]
          /\ IF ~checkRateLimit(ip) THEN Respond(r, 429)
             ELSE Await(r, Suspended("POST /packs/register", "body", "", ip, body))
  /\ UNCHANGED <<config, keys, registry, board, commerce, agentDirectory,
                 feed, files, served, registrations>>

\* the body has arrived
RegisterBody(r) ==
  /\ At(r, "POST /packs/register", "body")
  /\ IF ~reqs[r].body.valid \/ reqs[r].body.arg = ""
     THEN /\ Respond(r, 400)
          /\ UNCHANGED <<registry, files, registrationAttempts, registrations>>
     ELSE LET result == registerPack(registry, reqs[r].body.arg, now)
          IN  \* recordAttempt(clientIP)
              /\ registrationAttempts' =
                   [registrationAttempts EXCEPT ![reqs[r].ip] = Append(@, now)]
              /\ registry' = result
              /\ files' = [files EXCEPT !.packs = result]
              /\ registrations' =
                   Append(registrations, [ip |-> reqs[r].ip, at |-> now])
              /\ Respond(r, 201)
  /\ UNCHANGED <<config, keys, board, commerce, agentDirectory, feed, sent,
                 served>>

(***************************************************************************)
(* POST /wolves/spawn (protected, costs credits).                          *)
(***************************************************************************)
PackIds == { registry.packs[i].id : i \in 1..Len(registry.packs) }

SpawnRequest(r, headers, body) ==
  /\ Free(r)
  /\ sent' = sent + 1
  /\ LET apiKey       == SlicedKey(headers)
         creditResult == useCredits(keys, masterKey, apiKey, "wolf_spawn")
     IN  IF ~checkAuth(headers)
         THEN /\ Respond(r, 401)
              /\ UNCHANGED <<keys, files>>
         ELSE /\ keys' = creditResult.keys
              /\ files' = IF creditResult.saved
                          THEN [files EXCEPT !.keys = creditResult.keys]
                          ELSE files
              /\ IF ~creditResult.success THEN Respond(r, 402)
                 ELSE Await(r, Suspended("POST /wolves/spawn", "body", apiKey, "", body))
  /\ UNCHANGED <<config, registry, board, commerce, agentDirectory, feed,
                 registrationAttempts, served, registrations>>

\* the body has arrived
SpawnBody(r) ==
  /\ At(r, "POST /wolves/spawn", "body")
  /\ LET result == spawnWolf(registry, reqs[r].body.arg, now)
     IN  IF ~reqs[r].body.valid \/ reqs[r].body.arg = ""
         THEN /\ Respond(r, 400)
              /\ UNCHANGED <<registry, files, served>>
         ELSE IF result.error # ""
         THEN /\ Respond(r, 404)
              /\ UNCHANGED <<registry, files, served>>
         ELSE /\ registry' = result.registry
              /\ files' = [files EXCEPT !.packs = result.registry]
              /\ served' = Serve(reqs[r].key, "wolf_spawn")
              /\ Respond(r, 201)
  /\ UNCHANGED <<config, keys, board, commerce, agentDirectory, feed,
                 registrationAttempts, sent, registrations>>

(***************************************************************************)
(* The other protected routes read nothing but the headers before the      *)
(* body: checkAuth, then `await parseBody`.                                *)
(***************************************************************************)
Protected(r, route, headers, body) ==
  /\ Free(r)
  /\ sent' = sent + 1
  /\ IF ~checkAuth(headers) THEN Respond(r, 401)
     ELSE Await(r, Suspended(route, "body", AuthKey(headers), "", body))
  /\ UNCHANGED <<config, keys, registry, board, commerce, agentDirectory,
                 feed, files, registrationAttempts, served, registrations>>

(***************************************************************************)
(* POST /hunts/complete                                                    *)
(***************************************************************************)
WolfIds ==
  UNION { { registry.packs[i].wolves[j].id :
              j \in 1..Len(registry.packs[i].wolves) } :
          i \in 1..Len(registry.packs) }

HuntRequest(r, headers, body) ==
  Protected(r, "POST /hunts/complete", headers, body)

HuntBody(r) ==
  /\ At(r, "POST /hunts/complete", "body")
  /\ LET body   == reqs[r].body
         result == completeHunt(registry, body.arg)
     IN  IF ~body.valid \/ body.arg = "" \/ body.arg2 = ""
         THEN /\ Respond(r, 400)
              /\ UNCHANGED <<registry, files>>
         ELSE /\ registry' = result.registry
              /\ files' = IF result.error = ""
                          THEN [files EXCEPT !.packs = result.registry]
                          ELSE files
              /\ Respond(r, 200)
  /\ UNCHANGED <<config, keys, board, commerce, agentDirectory, feed,
                 registrationAttempts, sent, served, registrations>>

(***************************************************************************)
(* POST /bounties, /bounties/claim, /bounties/submit, /bounties/verify     *)
(***************************************************************************)
BountyIds == { board.bounties[i].id : i \in 1..Len(board.bounties) }

BountyRequest(r, headers, body) ==
  Protected(r, "POST /bounties", headers, body)

BountyBody(r) ==
  /\ At(r, "POST /bounties", "body")
  /\ LET body   == reqs[r].body
         result == postBounty(board, body.arg, 0)
     IN  IF ~body.valid \/ body.arg = "" \/ body.arg2 = ""
         THEN /\ Respond(r, 400)
              /\ UNCHANGED <<board, files, served>>
         ELSE /\ board' = result
              /\ files' = [files EXCEPT !.bounties = result]
              /\ served' = Serve(reqs[r].key, "bounty_post")
              /\ Respond(r, 201)
  /\ UNCHANGED <<config, keys, registry, commerce, agentDirectory, feed,
                 registrationAttempts, sent, registrations>>

\* the end of the three handlers that answer with the board's result
BoardAnswers(r, body, result) ==
  /\ IF ~body.valid \/ body.arg = "" \/ body.arg2 = ""
     THEN /\ Respond(r, 400)
          /\ UNCHANGED <<board, files>>
     ELSE /\ board' = result.board
          /\ files' = IF result.success
                      THEN [files EXCEPT !.bounties = result.board]
                      ELSE files
          \* what the call threw is caught by the route and answered 400
          /\ Respond(r, IF result.threw THEN 400 ELSE 200)
  /\ UNCHANGED <<config, keys, registry, commerce, agentDirectory, feed,
                 registrationAttempts, sent, served, registrations>>

ClaimRequest(r, headers, body) ==
  Protected(r, "POST /bounties/claim", headers, body)

ClaimBody(r) ==
  /\ At(r, "POST /bounties/claim", "body")
  /\ BoardAnswers(r, reqs[r].body,
                  claimBounty(board, reqs[r].body.arg, reqs[r].body.arg2,
                              reqs[r].body.arg3, now))

SubmitRequest(r, headers, body) ==
  Protected(r, "POST /bounties/submit", headers, body)

SubmitBody(r) ==
  /\ At(r, "POST /bounties/submit", "body")
  /\ IF reqs[r].body.valid /\ reqs[r].body.arg3 = ""
     THEN \* !body.proof
          /\ Respond(r, 400)
          /\ UNCHANGED <<config, keys, registry, board, commerce,
                         agentDirectory, feed, files, registrationAttempts,
                         sent, served, registrations>>
     ELSE BoardAnswers(r, reqs[r].body,
                       submitCompletion(board, reqs[r].body.arg,
                                        reqs[r].body.arg2, reqs[r].body.arg3))

VerifyRequest(r, headers, body) ==
  Protected(r, "POST /bounties/verify", headers, body)

VerifyBody(r) ==
  /\ At(r, "POST /bounties/verify", "body")
  /\ BoardAnswers(r, reqs[r].body,
                  verifyCompletion(board, reqs[r].body.arg, "admin",
                                   reqs[r].body.arg2 = "true"))

(***************************************************************************)
(* POST /activity                                                          *)
(***************************************************************************)
ActivityRequest(r, headers, body) ==
  Protected(r, "POST /activity", headers, body)

ActivityBody(r) ==
  /\ At(r, "POST /activity", "body")
  /\ LET body   == reqs[r].body
         logged == log(feed, body.arg)
     IN  IF ~body.valid \/ body.arg = "" \/ body.arg2 = ""
         THEN /\ Respond(r, 400)
              /\ UNCHANGED <<feed, files>>
         ELSE /\ feed' = logged
              /\ files' = [files EXCEPT !.activity = logged]
              /\ Respond(r, 201)
  /\ UNCHANGED <<config, keys, registry, board, commerce, agentDirectory,
                 registrationAttempts, sent, served, registrations>>

(***************************************************************************)
(* POST /proofs/anchor.  proofAnchor.proveWork is awaited: what it does    *)
(* lies outside the server, its verdict comes back.                        *)
(***************************************************************************)
AnchorRequest(r, headers, body) ==
  Protected(r, "POST /proofs/anchor", headers, body)

AnchorBody(r) ==
  /\ At(r, "POST /proofs/anchor", "body")
  /\ LET body == reqs[r].body
     IN  IF ~body.valid THEN Respond(r, 500)
         ELSE IF body.arg = "" \/ body.arg2 = "" THEN Respond(r, 400)
         ELSE Await(r, [reqs[r] EXCEPT !.pc = "prove"])
  /\ UNCHANGED <<config, keys, registry, board, commerce, agentDirectory,
                 feed, files, registrationAttempts, sent, served,
                 registrations>>

\* proveWork has returned (success), or returned a failure or thrown
AnchorProved(r, success) ==
  /\ At(r, "POST /proofs/anchor", "prove")
  /\ LET logged == log(feed, "proof_anchored")
     IN  IF success
         THEN /\ feed' = logged
              /\ files' = [files EXCEPT !.activity = logged]
              /\ served' = Serve(reqs[r].key, "proof_anchor")
              /\ Respond(r, 201)
         ELSE /\ UNCHANGED <<feed, files, served>>
              /\ Respond(r, 500)
  /\ UNCHANGED <<config, keys, registry, board, commerce, agentDirectory,
                 registrationAttempts, sent, registrations>>

(***************************************************************************)
(* POST /commerce/agents, /commerce/hire, /commerce/pay/:contractId        *)
(***************************************************************************)
AgentIds == DOMAIN agentDirectory

ContractIds == { commerce.contracts[i].id : i \in 1..Len(commerce.contracts) }

AgentsRequest(r, headers, body) ==
  Protected(r, "POST /commerce/agents", headers, body)

AgentsBody(r) ==
  /\ At(r, "POST /commerce/agents", "body")
  /\ LET body == reqs[r].body
     IN  IF ~body.valid \/ body.arg = "" \/ body.arg2 = ""
         THEN /\ Respond(r, 400)
              /\ UNCHANGED agentDirectory
         ELSE /\ agentDirectory' =
                   registerAgent(agentDirectory, body.arg, body.arg3)
              /\ Respond(r, 201)
  /\ UNCHANGED <<config, keys, registry, board, commerce, feed, files,
                 registrationAttempts, sent, served, registrations>>

HireRequest(r, headers, body) ==
  Protected(r, "POST /commerce/hire", headers, body)

\* the body has arrived: createContract, and requestWork up to its fetch
HireBody(r) ==
  /\ At(r, "POST /commerce/hire", "body")
  /\ LET body     == reqs[r].body
         payment  == IF body.arg3 = "" THEN 0 ELSE 1
         created  == createContract(commerce, body.arg,
                                    Lookup(agentDirectory, body.arg), payment)
         contract == created.contracts[Len(created.contracts)]
     IN  IF ~body.valid
         THEN /\ Respond(r, 500)
              /\ UNCHANGED <<commerce, files>>
         ELSE IF body.arg = "" \/ body.arg2 = ""
         THEN /\ Respond(r, 400)
              /\ UNCHANGED <<commerce, files>>
         ELSE /\ commerce' = created
              /\ files' = [files EXCEPT !.commerce = created]
              /\ Await(r, [reqs[r] EXCEPT
                             !.pc = "work",
                             !.body = Body(TRUE, contract.id, "", body.arg3)])
  /\ UNCHANGED <<config, keys, registry, board, agentDirectory, feed,
                 registrationAttempts, sent, served, registrations>>

\* the provider's API has answered, or the fetch has failed
HireWorked(r, answered) ==
  /\ At(r, "POST /commerce/hire", "work")
  /\ LET i      == FindContract(commerce, reqs[r].body.arg)
         worked == requestWorkDone(commerce, i, answered)
         logged == log(feed, "agent_hired")
     IN  /\ commerce' = worked
         /\ IF ~answered
            THEN /\ feed' = logged
                 /\ files' = [files EXCEPT !.commerce = worked,
                                           !.activity = logged]
                 /\ UNCHANGED served
                 /\ Respond(r, 500)
            ELSE IF /\ reqs[r].body.arg3 # ""
                    /\ wallet
                    /\ worked.contracts[i].providerWallet # ""
                    /\ payAgentReady(worked, wallet, reqs[r].body.arg)
            THEN /\ files' = [files EXCEPT !.commerce = worked]
                 /\ UNCHANGED <<feed, served>>
                 /\ Await(r, [reqs[r] EXCEPT !.pc = "pay"])
            ELSE /\ feed' = logged
                 /\ files' = [files EXCEPT !.commerce = worked,
                                           !.activity = logged]
                 /\ served' = Serve(reqs[r].key, "agent_hire")
                 /\ Respond(r, 200)
  /\ UNCHANGED <<config, keys, registry, board, agentDirectory,
                 registrationAttempts, sent, registrations>>

\* the payment of the hire was confirmed, or sending it failed
HirePaid(r, confirmed) ==
  /\ At(r, "POST /commerce/hire", "pay")
  /\ LET i      == FindContract(commerce, reqs[r].body.arg)
         paid   == IF confirmed THEN payAgentDone(commerce, i) ELSE commerce
         logged == log(feed, "agent_hired")
     IN  /\ commerce' = paid
         /\ feed' = logged
         /\ files' = IF confirmed
                     THEN [files EXCEPT !.commerce = paid, !.activity = logged]
                     ELSE [files EXCEPT !.activity = logged]
         /\ served' = Serve(reqs[r].key, "agent_hire")
         /\ Respond(r, 200)
  /\ UNCHANGED <<config, keys, registry, board, agentDirectory,
                 registrationAttempts, sent, registrations>>

\* no body is read: payAgent runs up to sendAndConfirmTransaction
PayRequest(r, headers, contractId) ==
  /\ Free(r)
  /\ sent' = sent + 1
  /\ IF ~checkAuth(headers) THEN Respond(r, 401)
     ELSE IF ~payAgentReady(commerce, wallet, contractId) THEN Respond(r, 400)
     ELSE Await(r, Suspended("POST /commerce/pay", "pay", AuthKey(headers), "",
                             Body(TRUE, contractId, "", "")))
  /\ UNCHANGED <<config, keys, registry, board, commerce, agentDirectory,
                 feed, files, registrationAttempts, served, registrations>>

\* the payment was confirmed, or sending it failed
PayDone(r, confirmed) ==
  /\ At(r, "POST /commerce/pay", "pay")
  /\ LET i      == FindContract(commerce, reqs[r].body.arg)
         paid   == payAgentDone(commerce, i)
         logged == log(feed, "treasury_tx")
     IN  IF confirmed
         THEN /\ commerce' = paid
              /\ feed' = logged
              /\ files' = [files EXCEPT !.commerce = paid, !.activity = logged]
              /\ Respond(r, 200)
         ELSE /\ UNCHANGED <<commerce, feed, files>>
              /\ Respond(r, 400)
  /\ UNCHANGED <<config, keys, registry, board, agentDirectory,
                 registrationAttempts, sent, served, registrations>>

(***************************************************************************)
(* The server under purchases, registrations and spawns.                   *)
(***************************************************************************)
Purchase(max, txs) ==
  \E r \in Slots, body \in Bodies(txs) :
    sent < max /\ PurchaseRequest(r, NoHeaders, body)

RpcAnswer ==
  \E r \in Slots : \E answer \in RpcAnswers(reqs[r].body.arg) :
    PurchaseVerified(r, answer)

Register(max, ips) ==
  \E r \in Slots, headers \in PresentedHeaders, ip \in ips,
     body \in Bodies({"my-pack"}) :
    sent < max /\ RegisterRequest(r, headers, ip, body)

RegisterBodyArrives == \E r \in Slots : RegisterBody(r)

Spawn(max) ==
  \E r \in Slots, headers \in PresentedHeaders,
     body \in Bodies(PackIds \cup {"pack-unknown"}) :
    sent < max /\ SpawnRequest(r, headers, body)

SpawnBodyArrives == \E r \in Slots : SpawnBody(r)

Next ==
  \/ Purchase(MaxRequests, TxSigs)
  \/ RpcAnswer
  \/ Register(MaxRequests, {"10.0.0.1"})
  \/ RegisterBodyArrives
  \/ Spawn(MaxRequests)
  \/ SpawnBodyArrives

Spec == Init /\ [][Next]_vars

(***************************************************************************)
(* The server under every POST route.                                      *)
(***************************************************************************)
\* requests the clients send in one run of the whole API
MaxApiRequests == 2

HuntBodies == Bodies3(WolfIds \cup {"wolf-unknown"}, {"done"}, {""})

Hunt(max) ==
  \E r \in Slots, headers \in PresentedHeaders, body \in HuntBodies :
    sent < max /\ HuntRequest(r, headers, body)

HuntBodyArrives == \E r \in Slots : HuntBody(r)

BountyBodies == Bodies3({"find alpha"}, {"", "scout the chain"}, {""})

Bounty(max) ==
  \E r \in Slots, headers \in PresentedHeaders, body \in BountyBodies :
    sent < max /\ BountyRequest(r, headers, body)

BountyBodyArrives == \E r \in Slots : BountyBody(r)

ClaimBodies ==
  Bodies3(BountyIds \cup {"bounty-unknown"}, {"wolf-1", "wolf-2"}, {""})

Claim(max) ==
  \E r \in Slots, headers \in PresentedHeaders, body \in ClaimBodies :
    sent < max /\ ClaimRequest(r, headers, body)

ClaimBodyArrives == \E r \in Slots : ClaimBody(r)

SubmitBodies ==
  Bodies3(BountyIds \cup {"bounty-unknown"}, {"wolf-1", "wolf-2"},
          {ProofWithData})

Submit(max) ==
  \E r \in Slots, headers \in PresentedHeaders, body \in SubmitBodies :
    sent < max /\ SubmitRequest(r, headers, body)

SubmitBodyArrives == \E r \in Slots : SubmitBody(r)

VerifyBodies ==
  Bodies3(BountyIds \cup {"bounty-unknown"}, {"true", "false"}, {""})

Verify(max) ==
  \E r \in Slots, headers \in PresentedHeaders, body \in VerifyBodies :
    sent < max /\ VerifyRequest(r, headers, body)

VerifyBodyArrives == \E r \in Slots : VerifyBody(r)

ActivityBodies == Bodies3({"custom"}, {"data"}, {""})

Activity(max) ==
  \E r \in Slots, headers \in PresentedHeaders, body \in ActivityBodies :
    sent < max /\ ActivityRequest(r, headers, body)

ActivityBodyArrives == \E r \in Slots : ActivityBody(r)

AnchorBodies == Bodies3({"wolf-1"}, {"research"}, {""})

Anchor(max) ==
  \E r \in Slots, headers \in PresentedHeaders, body \in AnchorBodies :
    sent < max /\ AnchorRequest(r, headers, body)

AnchorBodyArrives == \E r \in Slots : AnchorBody(r)

AnchorReturns == \E r \in Slots, success \in BOOLEAN : AnchorProved(r, success)

AgentsBodies == Bodies3({"helper"}, {"Helper"}, {"", "helper-wallet"})

Agents(max) ==
  \E r \in Slots, headers \in PresentedHeaders, body \in AgentsBodies :
    sent < max /\ AgentsRequest(r, headers, body)

AgentsBodyArrives == \E r \in Slots : AgentsBody(r)

HireBodies == Bodies3({"agentdex", "helper"}, {"quote"}, {"", "1"})

Hire(max) ==
  \E r \in Slots, headers \in PresentedHeaders, body \in HireBodies :
    sent < max /\ HireRequest(r, headers, body)

HireBodyArrives == \E r \in Slots : HireBody(r)

HireWorkReturns == \E r \in Slots, answered \in BOOLEAN : HireWorked(r, answered)

HirePayReturns == \E r \in Slots, confirmed \in BOOLEAN : HirePaid(r, confirmed)

PayPaths == ContractIds \cup {"contract-unknown"}

Pay(max) ==
  \E r \in Slots, headers \in PresentedHeaders, contractId \in PayPaths :
    sent < max /\ PayRequest(r, headers, contractId)

PayReturns == \E r \in Slots, confirmed \in BOOLEAN : PayDone(r, confirmed)

NextApi ==
  \/ Purchase(MaxApiRequests, {"tA", "tD"})
  \/ RpcAnswer
  \/ Register(MaxApiRequests, {"10.0.0.1"})
  \/ RegisterBodyArrives
  \/ Spawn(MaxApiRequests)
  \/ SpawnBodyArrives
  \/ Hunt(MaxApiRequests)
  \/ HuntBodyArrives
  \/ Bounty(MaxApiRequests)
  \/ BountyBodyArrives
  \/ Claim(MaxApiRequests)
  \/ ClaimBodyArrives
  \/ Submit(MaxApiRequests)
  \/ SubmitBodyArrives
  \/ Verify(MaxApiRequests)
  \/ VerifyBodyArrives
  \/ Activity(MaxApiRequests)
  \/ ActivityBodyArrives
  \/ Anchor(MaxApiRequests)
  \/ AnchorBodyArrives
  \/ AnchorReturns
  \/ Agents(MaxApiRequests)
  \/ AgentsBodyArrives
  \/ Hire(MaxApiRequests)
  \/ HireBodyArrives
  \/ HireWorkReturns
  \/ HirePayReturns
  \/ Pay(MaxApiRequests)
  \/ PayReturns

SpecApi == InitApi /\ [][NextApi]_vars

\* the request carries neither the master key nor an active paid key
Unauthenticated(headers) ==
  \A k \in {headers.rest, headers.xApiKey} : ~validateKey(keys, masterKey, k)

\* a request for a route marked PROTECTED arrives in slot r
ProtectedArrival(r, headers) ==
  \/ \E ip \in IPs, body \in Bodies({"my-pack"}) :
       RegisterRequest(r, headers, ip, body)
  \/ \E body \in Bodies(PackIds \cup {"pack-unknown"}) :
       SpawnRequest(r, headers, body)
  \/ \E body \in HuntBodies : HuntRequest(r, headers, body)
  \/ \E body \in BountyBodies : BountyRequest(r, headers, body)
  \/ \E body \in ClaimBodies : ClaimRequest(r, headers, body)
  \/ \E body \in ClaimBodies : SubmitRequest(r, headers, body)
  \/ \E body \in VerifyBodies : VerifyRequest(r, headers, body)
  \/ \E body \in ActivityBodies : ActivityRequest(r, headers, body)
  \/ \E body \in AnchorBodies : AnchorRequest(r, headers, body)
  \/ \E body \in AgentsBodies : AgentsRequest(r, headers, body)
  \/ \E body \in HireBodies : HireRequest(r, headers, body)
  \/ \E contractId \in PayPaths : PayRequest(r, headers, contractId)

\* the request is answered 401 and no service has changed
Rejected == lastStatus' = 401 /\ UNCHANGED services

MaxPricedRequests == 3

\* any deployment with authentication on, freshly installed
InitWallet ==
  /\ masterKey \in {"", "master-secret"}
  /\ requireAuth = TRUE
  /\ wallet \in BOOLEAN
  /\ Booted
  /\ ScriptsIdle

NextPriced ==
  \/ Purchase(MaxPricedRequests, {"tA"})
  \/ RpcAnswer
  \/ Bounty(MaxPricedRequests)
  \/ BountyBodyArrives
  \/ Anchor(MaxPricedRequests)
  \/ AnchorBodyArrives
  \/ AnchorReturns
  \/ Agents(MaxPricedRequests)
  \/ AgentsBodyArrives
  \/ Hire(MaxPricedRequests)
  \/ HireBodyArrives
  \/ HireWorkReturns
  \/ HirePayReturns

SpecPriced == InitWallet /\ [][NextPriced]_vars

\* the listed cost of all priced calls answered 2xx to the presenter of a key
RECURSIVE ListedCost(_, _)
ListedCost(apiKey, operations) ==
  IF operations = {} THEN 0
  ELSE LET operation == CHOOSE o \in operations : TRUE
       IN  COSTS(operation) * Lookup0(served, <<apiKey, operation>>)
             + ListedCost(apiKey, operations \ {operation})

\* C8: once no request is in flight, every paid key has been charged the
\* listed cost of each priced call that was served to it (wolf_spawn 1,
\* bounty_post 1, proof_anchor 2, agent_hire 1).
C8_PricedCallsAreCharged ==
  (\A r \in Slots : reqs[r].pc = "idle") =>
    \A i \in 1..Len(keys.issued) :
      keys.issued[i].totalUsed >= ListedCost(keys.issued[i].apiKey, Operations)

(***************************************************************************)
(* The server under registrations, with the clock running.                 *)
(***************************************************************************)
\* registration requests the clients send in one run
MaxRegistrations == 4

NextRate ==
  \/ Register(MaxRegistrations, IPs)
  \/ RegisterBodyArrives
  \/ Tick

SpecRate == Init /\ [][NextRate]_vars

\* the registrations of ip answered 201 in the hour that starts at `from`
RegisteredIn(ip, from) ==
  { j \in 1..Len(registrations) :
      /\ registrations[j].ip = ip
      /\ registrations[j].at >= from
      /\ registrations[j].at < from + RATE_LIMIT_WINDOW }

\* C6: for every client IP and every one-hour window, at most 3
\* registrations from that IP are answered 201.
C6_ThreePerHourPerIP ==
  \A ip \in IPs : \A i \in 1..Len(registrations) :
    Cardinality(RegisteredIn(ip, registrations[i].at)) <= RATE_LIMIT_MAX

(***************************************************************************)
(* What the ledger shows of the payments and of the spawns.                *)
(***************************************************************************)
Count(seq, x) == Cardinality({ i \in 1..Len(seq) : seq[i] = x })

\* the lamports the treasury gained in tx (0 when it is no party to it)
Lamports(tx) ==
  LET t == Ledger(tx)
      i == TreasuryIndex(t.accountKeys)
  IN  IF i = 0 THEN 0 ELSE t.postBalances[i] - t.preBalances[i]

\* floor(L * 500 / 10^9) in exact arithmetic: 10^9 / 500 is an integer
ExactCredits(L) == L \div (LAMPORTS_PER_SOL \div CREDITS_PER_SOL)

\* the credits the code grants for tx once it is verified
GrantedFor(tx) ==
  FFloor(FMulInt(FDiv(Lamports(tx), LAMPORTS_PER_SOL), CREDITS_PER_SOL))

\* all credits a key record ever received
Received(record) == record.credits + record.totalUsed

RECURSIVE SumExact(_)
SumExact(txs) ==
  IF txs = <<>> THEN 0
  ELSE ExactCredits(Lamports(Head(txs))) + SumExact(Tail(txs))

RECURSIVE SumGranted(_)
SumGranted(txSet) ==
  IF txSet = {} THEN 0
  ELSE LET tx == CHOOSE t \in txSet : TRUE
       IN  GrantedFor(tx) + SumGranted(txSet \ {tx})

\* the key records tx was credited to, with the position in their history
CreditedTo(tx) ==
  { <<i, j>> \in (1..Len(keys.issued)) \X (1..MaxRequests + 1) :
      /\ j <= Len(keys.issued[i].txHistory)
      /\ keys.issued[i].txHistory[j] = tx }

\* the active key records of a wallet
ActiveOf(payerWallet) ==
  { i \in 1..Len(keys.issued) :
      /\ keys.issued[i].payerWallet = payerWallet
      /\ keys.issued[i].status = "active" }

\* C1: once no spawn request is in flight, the credits each key has spent
\* equal the wolves spawned for it: every spawn that answered 201 cost one
\* credit and a spawn that failed cost nothing.
C1_SpawnCreditsEqualWolves ==
  (\A r \in Slots : reqs[r].route # "POST /wolves/spawn") =>
    \A i \in 1..Len(keys.issued) :
      keys.issued[i].totalUsed =
        Lookup0(served, <<keys.issued[i].apiKey, "wolf_spawn">>)

\* C2: a transaction signature is recorded at most once in keys.transactions
\* and is credited at most once, to one key.
C2_SignatureCreditedOnce ==
  \A tx \in TxSigs :
    /\ Count(keys.transactions, tx) <= 1
    /\ Cardinality(CreditedTo(tx)) <= 1

\* C5: two overlapping purchases can leave a balance no serial execution
\* leaves.  Executed one after the other, requests credit a signature at most
\* once; whenever a key's history holds a signature twice, the key has
\* received more credits than its signatures are worth one by one.
C5_OverlapOvercredits ==
  \A i \in 1..Len(keys.issued) :
    (\E tx \in TxSigs : Count(keys.issued[i].txHistory, tx) >= 2) =>
      Received(keys.issued[i]) > SumGranted(Range(keys.issued[i].txHistory))

\* two overlapping purchases of one signature have both been credited
C5_Overlapped ==
  /\ \A r \in Slots : reqs[r].pc = "idle"
  /\ \E i \in 1..Len(keys.issued) :
       /\ keys.issued[i].txHistory = <<"tA", "tA">>
       /\ keys.issued[i].credits = 2 * GrantedFor("tA")

\* C7: a payer wallet has at most one active key record, walletToKey names
\* it, and every purchase the wallet made returned that key.
C7_OneKeyPerWallet ==
  /\ \A w \in Wallets :
       /\ Cardinality(ActiveOf(w)) <= 1
       /\ \A i \in ActiveOf(w) :
            Lookup(keys.walletToKey, w) = keys.issued[i].apiKey
  /\ \A tx \in DOMAIN keys.txToKey :
       keys.txToKey[tx] = Lookup(keys.walletToKey, Ledger(tx).accountKeys[1])

\* a wallet has paid twice, with two signatures, into its one key
C7_ToppedUp ==
  \E i \in 1..Len(keys.issued) :
    /\ Len(keys.issued[i].txHistory) >= 2
    /\ keys.issued[i].txHistory[1] # keys.issued[i].txHistory[2]
    /\ ActiveOf(keys.issued[i].payerWallet) = {i}

\* the key of a wallet whose one payment was exactly 0.05 SOL, nothing spent
FirstPaymentOfMinimum(record) ==
  /\ Len(record.txHistory) = 1
  /\ Lamports(record.txHistory[1]) = LAMPORTS_PER_SOL \div 20
  /\ record.totalUsed = 0

C10_CreditsAreExactFloor ==
  /\ \A i \in 1..Len(keys.issued) :
       Received(keys.issued[i]) = SumExact(keys.issued[i].txHistory)
  /\ \A tx \in Range(keys.transactions) :
       Lamports(tx) >= LAMPORTS_PER_SOL \div 20

(***************************************************************************)
(* The PaymentGate on its own: purchases through the server, and           *)
(* useCredits called for any key and any priced operation.                 *)
(***************************************************************************)
\* the credits one key may spend in a run
MaxUsed == 26
\* the purchases of a run
MaxPurchases == 2

\* the keys a caller may hand to useCredits
CandidateKeys == IssuedKeys \cup {"rml_bogus", "master-secret"}

\* paymentGate.useCredits(apiKey, operation)
UseCredits(apiKey, operation) ==
  LET result == useCredits(keys, masterKey, apiKey, operation)
  IN  /\ \A i \in 1..Len(keys.issued) : keys.issued[i].totalUsed < MaxUsed
      /\ keys' = result.keys
      /\ files' = IF result.saved THEN [files EXCEPT !.keys = result.keys]
                  ELSE files
      /\ UNCHANGED <<config, registry, board, commerce, agentDirectory, feed,
                     registrationAttempts, reqs, sent, lastStatus, served,
                     registrations, scripts>>

UseCreditsCalled ==
  \E apiKey \in CandidateKeys, operation \in Operations :
    UseCredits(apiKey, operation)

NextGate ==
  \/ Purchase(MaxPurchases, {"tA", "tD"})
  \/ RpcAnswer
  \/ UseCreditsCalled

SpecGate == Init /\ [][NextGate]_vars

\* C3: no balance is ever negative, and in every reachable state a call of
\* useCredits for an operation of cost c succeeds exactly when the key is
\* the master key or an active key with credits >= c; a successful call
\* takes exactly c from credits and adds c to totalUsed of that key alone,
\* a failed call and a call with the master key change nothing.
C3_UseCreditsContract ==
  /\ \A i \in 1..Len(keys.issued) : keys.issued[i].credits >= 0
  /\ \A apiKey \in CandidateKeys, operation \in Operations :
       LET result == useCredits(keys, masterKey, apiKey, operation)
           c      == COSTS(operation)
           i      == FindActive(keys, apiKey)
       IN  IF masterKey # "" /\ apiKey = masterKey
           THEN result.success /\ result.keys = keys
           ELSE IF i # 0 /\ keys.issued[i].credits >= c
           THEN /\ result.success
                /\ result.keys =
                     [keys EXCEPT !.issued[i].credits = @ - c,
                                  !.issued[i].totalUsed = @ + c]
           ELSE ~result.success /\ result.keys = keys

\* a key has been spent down to nothing
C3_Drained ==
  \E i \in 1..Len(keys.issued) :
    /\ keys.issued[i].credits = 0
    /\ keys.issued[i].totalUsed = GrantedFor("tA")

(***************************************************************************)
(* scripts/treasury-wolf.js.  SOL amounts are counted in hundredths of a   *)
(* SOL.  For the amounts and balances drawn here the double comparisons of  *)
(* checkLimits agree with the exact ones, but for 0.15 - 0.05, which the    *)
(* double subtraction rounds to 0.09999999999999999.                        *)
(***************************************************************************)
LIMITS == [maxSingleTx |-> 5, maxDailySpend |-> 20, minBalance |-> 10,
           requireApproval |-> 10]

DayMs == 24 * 60 * 60 * 1000

\* one tick of the treasury wolf's clock
WolfTickMs == DayMs

MaxOrders == 5

MaxWolfTicks == 1

\* the amounts ordered: at the single-transaction limit and above it
OrderAmounts == {5, 6}

\* the wallet's balance when the wolf starts
StartBalances == {16, 40}

RECURSIVE SumAmounts(_)
SumAmounts(entries) ==
  IF entries = <<>> THEN 0
  ELSE Head(entries).amount + SumAmounts(Tail(entries))

getDailySpend(spendLog, time) ==
  SumAmounts(SelectSeq(spendLog, LAMBDA tx : tx.timestamp > time - DayMs))

\* balance - amount < LIMITS.minBalance, as the doubles compare
BelowMinBalance(balance, amount) ==
  \/ balance - amount < LIMITS.minBalance
  \/ balance = 15 /\ amount = 5

checkLimits(balance, spendLog, time, amount) ==
  [passed |-> ~ \/ amount > LIMITS.maxSingleTx
                \/ getDailySpend(spendLog, time) + amount
                     > LIMITS.maxDailySpend
                \/ BelowMinBalance(balance, amount),
   warnings |-> amount > LIMITS.requireApproval]

\* the call in slot c returns or throws
Returns(c, result) ==
  [treasury EXCEPT !.orders[c] = NoOrder, !.lastResult = result]

\* buyDarkflobi(solAmount) is called: checkLimits awaits getBalance
BuyOrder(c, solAmount) ==
  /\ treasury.ordered < MaxOrders
  /\ FreeCall(treasury.orders, c)
  /\ treasury' =
       [treasury EXCEPT !.ordered = @ + 1,
                        !.orders[c] = [pc |-> "balance",
                                       amount |-> solAmount, sig |-> ""]]
  /\ UNCHANGED <<server, executor, second, hunts, recovered, agent>>

\* getBalance answers: the limits are checked, a blocked order returns, any
\* other asks for a quote
BalanceAnswer(c) ==
  /\ treasury.orders[c].pc = "balance"
  /\ LET checks == checkLimits(treasury.balance, treasury.spendLog,
                               treasury.now, treasury.orders[c].amount)
     IN  treasury' =
           IF ~checks.passed
           THEN Returns(c, [NoResult EXCEPT !.blocked = TRUE])
           ELSE [treasury EXCEPT !.orders[c].pc = "quote"]
  /\ UNCHANGED <<server, executor, second, hunts, recovered, agent>>

\* the quote arrives, or quote.error
QuoteAnswer(c, ok) ==
  /\ treasury.orders[c].pc = "quote"
  /\ treasury' = IF ok THEN [treasury EXCEPT !.orders[c].pc = "swap"]
                 ELSE Returns(c, NoResult)
  /\ UNCHANGED <<server, executor, second, hunts, recovered, agent>>

\* the swap transaction arrives, or swapData.error; it is signed and sent
SwapAnswer(c, ok) ==
  /\ treasury.orders[c].pc = "swap"
  /\ treasury' = IF ok THEN [treasury EXCEPT !.orders[c].pc = "send"]
                 ELSE Returns(c, NoResult)
  /\ UNCHANGED <<server, executor, second, hunts, recovered, agent>>

\* sendTransaction: the network takes the swap and answers its signature,
\* or the call throws
SendAnswer(c, ok) ==
  /\ treasury.orders[c].pc = "send"
  /\ ok => treasury.balance >= treasury.orders[c].amount
  /\ treasury' =
       IF ok
       THEN LET sig == Len(treasury.swaps) + 1
                after == treasury.balance - treasury.orders[c].amount
            IN  [treasury EXCEPT
                   !.balance = after,
                   !.swaps = Append(@, [at |-> treasury.now,
                                        amount |-> treasury.orders[c].amount,
                                        signature |-> sig,
                                        balanceAfter |-> after]),
                   !.orders[c].pc = "confirm",
                   !.orders[c].sig = sig]
       ELSE Returns(c, [NoResult EXCEPT !.threw = TRUE])
  /\ UNCHANGED <<server, executor, second, hunts, recovered, agent>>

\* confirmTransaction resolves and the spend is logged, or it throws
ConfirmAnswer(c, ok) ==
  /\ treasury.orders[c].pc = "confirm"
  /\ treasury' =
       IF ok
       THEN LET logEntry == [timestamp |-> treasury.now,
                             amount |-> treasury.orders[c].amount,
                             signature |-> treasury.orders[c].sig]
                spendLog == Append(treasury.spendLog, logEntry)
            IN  [Returns(c, [NoResult EXCEPT !.success = TRUE,
                                             !.sent = TRUE,
                                             !.logged = TRUE])
                   EXCEPT !.spendLog = spendLog, !.file = spendLog]
       ELSE Returns(c, [NoResult EXCEPT !.threw = TRUE, !.sent = TRUE])
  /\ UNCHANGED <<server, executor, second, hunts, recovered, agent>>

\* the treasury wolf's clock advances
WolfTick ==
  /\ treasury.now < MaxWolfTicks * WolfTickMs
  /\ treasury' = [treasury EXCEPT !.now = @ + WolfTickMs]
  /\ UNCHANGED <<server, executor, second, hunts, recovered, agent>>

\* the server is not involved
ServerIdle ==
  /\ masterKey = ""
  /\ requireAuth = TRUE
  /\ wallet = FALSE
  /\ Booted

InitTreasury ==
  /\ ServerIdle
  /\ treasury \in { TreasuryWolfInit(balance) : balance \in StartBalances }
  /\ executor = ExecutorInit
  /\ second = SecondInit
  /\ hunts = HuntsInit
  /\ recovered = RecoveredInit
  /\ agent = NoAgent

Buy == \E c \in Calls, solAmount \in OrderAmounts : BuyOrder(c, solAmount)

BalanceRead == \E c \in Calls : BalanceAnswer(c)

Quoted == \E c \in Calls, ok \in BOOLEAN : QuoteAnswer(c, ok)

SwapBuilt == \E c \in Calls, ok \in BOOLEAN : SwapAnswer(c, ok)

Sent == \E c \in Calls, ok \in BOOLEAN : SendAnswer(c, ok)

Confirmed == \E c \in Calls, ok \in BOOLEAN : ConfirmAnswer(c, ok)

NextTreasury ==
  \/ Buy
  \/ BalanceRead
  \/ Quoted
  \/ SwapBuilt
  \/ Sent
  \/ Confirmed
  \/ WolfTick

SpecTreasury == InitTreasury /\ [][NextTreasury]_vars

\* C11: every swap buyDarkflobi sends is within the single-transaction
\* limit (so within the approval threshold) and leaves the wallet at or
\* above the minimum balance; a blocked order returns success:false, has sent
\* nothing and has logged nothing.
C11_SwapsWithinLimits ==
  /\ \A i \in 1..Len(treasury.swaps) :
       /\ treasury.swaps[i].amount <= LIMITS.maxSingleTx
       /\ treasury.swaps[i].amount <= LIMITS.requireApproval
       /\ treasury.swaps[i].balanceAfter >= LIMITS.minBalance
  /\ treasury.lastResult.blocked =>
       /\ ~treasury.lastResult.success
       /\ ~treasury.lastResult.sent
       /\ ~treasury.lastResult.logged

\* the swaps sent in the 24 hours that end with the sending of swap i
SentInDayBefore(i) ==
  SelectSeq(treasury.swaps,
            LAMBDA s : /\ s.at > treasury.swaps[i].at - DayMs
                       /\ s.at <= treasury.swaps[i].at)

\* C12: the amounts of the swaps sent within any 24-hour window sum to at
\* most the daily limit of 0.2 SOL, whatever the interleaving of the calls.
C12_DailySpendWithinLimit ==
  \A i \in 1..Len(treasury.swaps) :
    SumAmounts(SentInDayBefore(i)) <= LIMITS.maxDailySpend

\* the log holds an entry with the swap's signature and amount
LoggedIn(entries, swap) ==
  \E k \in 1..Len(entries) :
    /\ entries[k].signature = swap.signature
    /\ entries[k].amount = swap.amount

\* C13: every swap sent to the network by a call that has ended has an
\* entry with its signature and amount in the spend log and in the
\* spend-log file, also when its confirmation failed or timed out.
C13_EverySwapLogged ==
  \A i \in 1..Len(treasury.swaps) :
    \/ \E c \in Calls : /\ treasury.orders[c].pc = "confirm"
                        /\ treasury.orders[c].sig = treasury.swaps[i].signature
    \/ /\ LoggedIn(treasury.spendLog, treasury.swaps[i])
       /\ LoggedIn(treasury.file, treasury.swaps[i])

(***************************************************************************)
(* sdk/wolf-executor.js.  A message history is an array that calls may     *)
(* share: `arrays` holds the length of every array created, a call and the *)
(* conversations map hold an array by its index.                           *)
(***************************************************************************)
MAX_MESSAGES_PER_WOLF == 20
MAX_WOLVES_PER_HOUR == 10

hourMs == 60 * 60 * 1000

ALLOWED_TOOLS == {"post_to_moltbook", "search_web"}

\* one tick of the executor's clock
ChatTickMs == 2 * (hourMs \div 3)

MaxChats == 12

MaxChatTicks == 2

MaxToolChats == 2

\* the keys a context carries: none, or a customer's
ChatKeys == {"", "rml_1"}

ChatWolves == {"wolf-a"}

\* what Claude may ask for: the two tools it is offered, or any other name
ToolNames == {"post_to_moltbook", "search_web", "run_shell"}

\* checkRateLimit(apiKey) at `time`
checkRateLimitOfKey(rateLimits, apiKey, time) ==
  LET stored == IF apiKey \in DOMAIN rateLimits THEN rateLimits[apiKey]
                ELSE [count |-> 0, resetTime |-> -1]
      limit == IF apiKey \notin DOMAIN rateLimits \/ time > stored.resetTime
               THEN [count |-> 0, resetTime |-> time + hourMs]
               ELSE stored
  IN  IF limit.count >= MAX_WOLVES_PER_HOUR
      THEN [allowed |-> FALSE, rateLimits |-> rateLimits]
      ELSE [allowed |-> TRUE,
            rateLimits |-> Assign(rateLimits, apiKey,
                                  [limit EXCEPT !.count = @ + 1])]

\* executeTool without the allowlist and with a switch whose default
\* searches the web
executeToolUnlisted(name, braveKey) ==
  IF name = "post_to_moltbook"
  THEN [request |-> "moltbook", error |-> FALSE]
  ELSE IF braveKey THEN [request |-> "brave", error |-> FALSE]
       ELSE [request |-> "", error |-> TRUE]

\* executeTool(toolUse): the request it sends, "" when it sends none, and
\* whether it returns at once with an error
executeTool(name, braveKey) ==
  IF name \notin ALLOWED_TOOLS
  THEN [request |-> "", error |-> TRUE]
  ELSE IF name = "post_to_moltbook"
  THEN [request |-> "moltbook", error |-> FALSE]
  ELSE IF name = "search_web"
  THEN IF braveKey THEN [request |-> "brave", error |-> FALSE]
       ELSE [request |-> "", error |-> TRUE]
  ELSE [request |-> "", error |-> TRUE]

\* history.push of n messages on the array a call holds
Pushed(ex, c, n) == [ex EXCEPT !.arrays[ex.chats[c].history] = @ + n]

\* the call in slot c returns
ChatReturns(ex, c) == [ex EXCEPT !.chats[c] = NoChat]

\* this.conversations.set(wolfId, history)
ConversationSet(ex, c) ==
  [ex EXCEPT !.conversations =
               Assign(@, ex.chats[c].wolfId, ex.chats[c].history)]

\* fetch of the named service
Requested(ex, service) == [ex EXCEPT !.requests[service] = @ + 1]

\* execute(wolfId, message, context): up to the first callClaude
Execute(c, wolfId, apiKey) ==
  /\ FreeCall(executor.chats, c)
  /\ LET rateCheck == checkRateLimitOfKey(executor.rateLimits, apiKey,
                                          executor.now)
         called == [executor EXCEPT !.executed = @ + 1]
         stored == Lookup0(executor.conversations, wolfId)
         fresh == Len(executor.arrays) + 1
     IN  executor' =
           IF ~executor.anthropicKey THEN called
           ELSE IF apiKey # "" /\ ~rateCheck.allowed
           THEN [called EXCEPT
                   !.refused = Append(@, [apiKey |-> apiKey,
                                          at |-> executor.now])]
           ELSE LET checked ==
                      IF apiKey = "" THEN called
                      ELSE [called EXCEPT
                              !.rateLimits = rateCheck.rateLimits,
                              !.passed = Append(@, [apiKey |-> apiKey,
                                                    at |-> executor.now])]
                    held ==
                      IF stored = 0
                      THEN [checked EXCEPT !.arrays = Append(@, 0),
                                           !.chats[c].history = fresh]
                      ELSE IF executor.arrays[stored]
                                >= MAX_MESSAGES_PER_WOLF * 2
                      THEN [checked EXCEPT !.arrays = Append(@, 10),
                                           !.chats[c].history = fresh]
                      ELSE [checked EXCEPT !.chats[c].history = stored]
                    asked == [held EXCEPT !.chats[c].pc = "claude",
                                          !.chats[c].wolfId = wolfId]
                IN  Requested(Pushed(asked, c, 1), "claude")
  /\ UNCHANGED <<server, treasury, second, hunts, recovered, agent>>

\* callClaude throws: execute catches it and returns success:false
ClaudeFails(c) ==
  /\ executor.chats[c].pc \in {"claude", "final"}
  /\ executor' = ChatReturns(executor, c)
  /\ UNCHANGED <<server, treasury, second, hunts, recovered, agent>>

\* the first callClaude answers with text only
ClaudeReplies(c) ==
  /\ executor.chats[c].pc = "claude"
  /\ executor' = ChatReturns(ConversationSet(Pushed(executor, c, 1), c), c)
  /\ UNCHANGED <<server, treasury, second, hunts, recovered, agent>>

\* the tool has returned: its result joins the history and Claude is called
\* again
ToolReturned(ex, c) ==
  Requested([Pushed(ex, c, 2) EXCEPT !.chats[c].pc = "final"], "claude")

\* the first callClaude answers with a tool_use: executeTool runs
ClaudeUsesTool(c, name) ==
  /\ executor.chats[c].pc = "claude"
  /\ LET tool == executeTool(name, executor.braveKey)
         used == [executor EXCEPT
                    !.toolUses = Append(@, [name |-> name,
                                            request |-> tool.request,
                                            error |-> tool.error]),
                    !.chats[c].tool = name]
     IN  executor' =
           IF tool.request = "" THEN ToolReturned(used, c)
           ELSE Requested([used EXCEPT !.chats[c].pc = "tool"],
                          tool.request)
  /\ UNCHANGED <<server, treasury, second, hunts, recovered, agent>>

\* the request of postToMoltbook or searchWeb is answered or fails: either
\* way the tool returns a result
ToolAnswers(c) ==
  /\ executor.chats[c].pc = "tool"
  /\ executor' = ToolReturned(executor, c)
  /\ UNCHANGED <<server, treasury, second, hunts, recovered, agent>>

\* the second callClaude answers
FinalReply(c) ==
  /\ executor.chats[c].pc = "final"
  /\ executor' = ChatReturns(ConversationSet(Pushed(executor, c, 1), c), c)
  /\ UNCHANGED <<server, treasury, second, hunts, recovered, agent>>

\* the executor's clock advances
ChatTick ==
  /\ executor.now < MaxChatTicks * ChatTickMs
  /\ executor' = [executor EXCEPT !.now = @ + ChatTickMs]
  /\ UNCHANGED <<server, treasury, second, hunts, recovered, agent>>

InitExecutor ==
  /\ ServerIdle
  /\ treasury = TreasuryWolfInit(0)
  /\ executor \in { WolfExecutorInit(anthropicKey, braveKey) :
                      anthropicKey \in BOOLEAN, braveKey \in BOOLEAN }
  /\ second = SecondInit
  /\ hunts = HuntsInit
  /\ recovered = RecoveredInit
  /\ agent = NoAgent

Chat(max) ==
  \E c \in Calls, wolfId \in ChatWolves, apiKey \in ChatKeys :
    /\ executor.executed < max
    /\ Execute(c, wolfId, apiKey)

ClaudeThrows == \E c \in Calls : ClaudeFails(c)

ClaudeAnswers == \E c \in Calls : ClaudeReplies(c)

ClaudeAsksTool == \E c \in Calls, name \in ToolNames : ClaudeUsesTool(c, name)

ToolDone == \E c \in Calls : ToolAnswers(c)

FinalAnswer == \E c \in Calls : FinalReply(c)

\* chats without tools, over two hours
NextChat ==
  \/ Chat(MaxChats)
  \/ ClaudeAnswers
  \/ ChatTick

SpecChat == InitExecutor /\ [][NextChat]_vars

\* chats in which Claude may ask for any tool
NextTools ==
  \/ Chat(MaxToolChats)
  \/ ClaudeThrows
  \/ ClaudeAnswers
  \/ ClaudeAsksTool
  \/ ToolDone
  \/ FinalAnswer

SpecTools == InitExecutor /\ [][NextTools]_vars

\* the calls with that key that passed checkRateLimit in the 60 minutes
\* that end with the passing of call i
PassedInHourBefore(i) ==
  SelectSeq(executor.passed,
            LAMBDA p : /\ p.apiKey = executor.passed[i].apiKey
                       /\ p.at > executor.passed[i].at - hourMs
                       /\ p.at <= executor.passed[i].at)

\* C14: for any API key and any 60-minute interval, at most 10 execute calls
\* carrying that key pass checkRateLimit.
C14_TenChatsPerHourPerKey ==
  \A i \in 1..Len(executor.passed) :
    Len(PassedInHourBefore(i)) <= MAX_WOLVES_PER_HOUR

\* C19: executeTool sends an external request only for post_to_moltbook and
\* search_web; for any other tool name it returns an error and sends none,
\* and every request sent to Moltbook or Brave is that of an allowed tool.
C19_OnlyAllowedToolsAct ==
  /\ \A i \in 1..Len(executor.toolUses) :
       executor.toolUses[i].name \notin ALLOWED_TOOLS =>
         /\ executor.toolUses[i].error
         /\ executor.toolUses[i].request = ""
  /\ executor.requests.moltbook =
       Cardinality({ i \in 1..Len(executor.toolUses) :
                       executor.toolUses[i].name = "post_to_moltbook" })
  /\ executor.requests.brave <=
       Cardinality({ i \in 1..Len(executor.toolUses) :
                       executor.toolUses[i].name = "search_web" })

\* Claude asked for a tool that is not on the list and for one that is: the
\* first was refused, the second has sent its request
C19_ToolRefusedAndToolRun ==
  /\ \E i \in 1..Len(executor.toolUses) :
       /\ executor.toolUses[i].name = "run_shell"
       /\ executor.toolUses[i].error
  /\ \E i \in 1..Len(executor.toolUses) :
       executor.toolUses[i].name = "post_to_moltbook"
  /\ executor.requests.moltbook = 1

(***************************************************************************)
(* The services' own command lines, run beside the server over the same   *)
(* JSON files: `node bounty-board.js post`, `node romulus-client.js        *)
(* register` and `node activity-feed.js test`.  Each is another process:   *)
(* its constructor loads the file, then every mutating call writes it.     *)
(***************************************************************************)
\* the requests of a run of the server beside the command lines
MaxFileRequests == 2
\* how often each command line is run
MaxRuns == 1

CliFiles == {"bounties", "packs", "activity"}

\* the mutating calls a run makes: one postBounty, one registerPack, or the
\* three events of `test`
CliCalls(file) == IF file = "activity" THEN 3 ELSE 1

\* the events `node activity-feed.js test` logs, in order
TestEvents == <<"wolf_spawned", "bounty_claimed", "hunt_completed">>

\* a save that leaves the file as it was
writeFileSyncSkipped(disk, file, memory) == disk

\* fs.writeFileSync(PATH, JSON.stringify(memory, null, 2)): the file holds
\* the whole of the writer's state and nothing else
writeFileSync(disk, file, memory) == [disk EXCEPT ![file] = memory]

\* the constructor: loadRegistry() / loadEvents() read the file once
CliStart(file) ==
  /\ second[file].pc # "run"
  /\ second[file].runs < MaxRuns
  /\ second' = [second EXCEPT ![file] =
                  [pc |-> "run", memory |-> files[file],
                   left |-> CliCalls(file), runs |-> @.runs + 1]]
  /\ UNCHANGED <<server, treasury, executor, hunts, recovered, agent>>

\* the state after the run's next mutating call
CliCalled(file, run) ==
  CASE file = "bounties" -> postBounty(run.memory, "Test Bounty", 1)
    [] file = "packs"    -> registerPack(run.memory, "cli-pack", now)
    [] file = "activity" ->
         log(run.memory, TestEvents[CliCalls(file) - run.left + 1])

\* one mutating call of the run, with the save that ends it
CliCall(file) ==
  /\ second[file].pc = "run"
  /\ LET run    == second[file]
         memory == CliCalled(file, run)
     IN  /\ second' = [second EXCEPT ![file] =
                         [run EXCEPT !.memory = memory,
                                     !.left = @ - 1,
                                     !.pc = IF run.left = 1 THEN "done"
                                            ELSE "run"]]
         /\ files' = writeFileSync(files, file, memory)
  /\ UNCHANGED <<config, keys, registry, board, commerce, agentDirectory,
                 feed, registrationAttempts, reqs, sent, lastStatus, served,
                 registrations, treasury, executor, hunts, recovered, agent>>

CliStarts == \E file \in CliFiles : CliStart(file)

CliCallDone == \E file \in CliFiles : CliCall(file)

NextFiles ==
  \/ Purchase(MaxFileRequests, {"tA"})
  \/ RpcAnswer
  \/ Register(MaxFileRequests, {"10.0.0.1"})
  \/ RegisterBodyArrives
  \/ Bounty(MaxFileRequests)
  \/ BountyBodyArrives
  \/ CliStarts
  \/ CliCallDone

SpecFiles == Init /\ [][NextFiles]_vars

\* C15: every step that changes the state a PaymentGate, RomulusClient,
\* BountyBoard or ActivityFeed instance holds in memory by a mutating
\* operation leaves the instance's JSON file equal to the whole of that
\* state, and every change of a file is such a write: nothing another
\* instance wrote since the writer loaded the file is read again or merged.
C15_FilesRewrittenWholesale ==
  [][/\ keys' # keys => files'.keys = keys'
     /\ registry' # registry => files'.packs = registry'
     /\ board' # board => files'.bounties = board'
     /\ feed' # feed => files'.activity = feed'
     /\ \A file \in CliFiles :
          second[file].pc = "run" /\ second'[file] # second[file]
            => files'[file] = second'[file].memory
     /\ files'.keys # files.keys => files'.keys = keys'
     /\ \A file \in CliFiles :
          files'[file] # files[file]
            => \/ files'[file] = second'[file].memory
               \/ /\ file = "packs" /\ files'[file] = registry'
               \/ /\ file = "bounties" /\ files'[file] = board'
               \/ /\ file = "activity" /\ files'[file] = feed']_vars

\* the command line loaded the bounty file, the server posted a bounty and
\* wrote it, then the command line posted its own: the file holds the
\* command line's state alone and the server's bounty is not in it
C15_ServerBountyOverwritten ==
  /\ second.bounties.pc = "done"
  /\ files.bounties = second.bounties.memory
  /\ Len(board.bounties) = 1
  /\ board.bounties[1].title = "find alpha"
  /\ Len(files.bounties.bounties) = 1
  /\ files.bounties.bounties[1].title = "Test Bounty"

(***************************************************************************)
(* scripts/proof-of-hunt.js.  A JavaScript string is a sequence of UTF-16  *)
(* code units, here letters, the quote, the backslash and one lone         *)
(* surrogate; a JSON text and a memo's bytes are sequences of tokens.      *)
(***************************************************************************)
Quote == "\""
Backslash == "\\"
\* the code unit U+D800 on its own, and the six characters of its escape
\* after the backslash
Surrogate == "U+D800"
SurrogateEscape == "ud800"
\* U+FFFD, which the UTF-8 encoder writes for a lone surrogate
Replacement == "U+FFFD"

\* the logHunt calls and the verifyHunt calls of a run, and its clock ticks
MaxHunts == 2
MaxVerifications == 1
MaxHuntTicks == 1

WolfTypes == { <<Quote, "s">>, <<"s", Backslash>>, <<Surrogate>> }
Missions == { <<"m">> }
HuntResults == { <<"r">>, <<"r", Quote>> }

\* the characters of a string between the quotes, without any escaping
EscapedNot(string) == string

\* the characters of a string between the quotes of its JSON text
RECURSIVE Escaped(_)
Escaped(string) ==
  IF string = <<>> THEN <<>>
  ELSE LET c == Head(string)
       IN  (IF c \in {Quote, Backslash} THEN <<Backslash, c>>
            ELSE IF c = Surrogate THEN <<Backslash, SurrogateEscape>>
            ELSE <<c>>) \o Escaped(Tail(string))

\* JSON.stringify(string)
JSONstringify(string) == <<Quote>> \o Escaped(string) \o <<Quote>>

SyntaxError == [ok |-> FALSE, string |-> <<>>]

\* JSON.parse of a string literal, from the character after the opening
\* quote: the string, or a SyntaxError
RECURSIVE ParsedFrom(_)
ParsedFrom(text) ==
  IF text = <<>> THEN SyntaxError
  ELSE IF Head(text) = Quote
  THEN IF Tail(text) = <<>> THEN [ok |-> TRUE, string |-> <<>>]
       ELSE SyntaxError
  ELSE IF Head(text) = Backslash
  THEN IF Len(text) < 2 THEN SyntaxError
       ELSE LET rest == ParsedFrom(SubSeq(text, 3, Len(text)))
                c    == IF text[2] = SurrogateEscape THEN Surrogate
                        ELSE text[2]
            IN  IF text[2] \in {Quote, Backslash, SurrogateEscape} /\ rest.ok
                THEN [ok |-> TRUE, string |-> <<c>> \o rest.string]
                ELSE SyntaxError
  ELSE LET rest == ParsedFrom(Tail(text))
       IN  IF rest.ok
           THEN [ok |-> TRUE, string |-> <<Head(text)>> \o rest.string]
           ELSE SyntaxError

\* JSON.parse(text) of a string literal
JSONparse(text) ==
  IF text # <<>> /\ Head(text) = Quote THEN ParsedFrom(Tail(text))
  ELSE SyntaxError

\* Buffer.from(string): UTF-8, a lone surrogate becomes U+FFFD; and
\* Buffer.from(bytes).toString(), which decodes what was encoded
BufferFrom(string) ==
  [i \in 1..Len(string) |->
     IF string[i] = Surrogate THEN Replacement ELSE string[i]]

\* hashHunt(huntData): sha256 of JSON.stringify(huntData), 16 hex digits,
\* kept as one token that stands for the digest of that text
hashHunt(huntData) ==
  << "sha256:" \o ToString(JSONstringify(huntData)) >>

\* mission.substring(0, 100)
substring(string, end) ==
  SubSeq(string, 1, IF Len(string) < end THEN Len(string) ELSE end)

\* JSON.stringify({p, v, t, w, h, ts}), member by member
MemoOf(wolfType, resultHash, timestamp) ==
  [p |-> JSONstringify(<<"romulus">>), v |-> JSONstringify(<<"1">>),
   t |-> JSONstringify(<<"hunt">>), w |-> JSONstringify(wolfType),
   h |-> JSONstringify(resultHash), ts |-> timestamp]

\* Buffer.from(memo), member by member
MemoBytes(memo) ==
  [p |-> BufferFrom(memo.p), v |-> BufferFrom(memo.v),
   t |-> BufferFrom(memo.t), w |-> BufferFrom(memo.w),
   h |-> BufferFrom(memo.h), ts |-> memo.ts]

NotVerified(error) ==
  [verified |-> FALSE, error |-> error, wolf |-> <<>>, resultHash |-> <<>>,
   timestamp |-> 0]

\* verifyHunt(signature), given what getTransaction answered: "throws",
\* "null", or the transaction `tx`
verifyHunt(answer, tx) ==
  IF answer = "throws" THEN NotVerified("error.message")
  ELSE IF answer = "null" THEN NotVerified("Transaction not found")
  ELSE IF ~tx.memo THEN NotVerified("No memo found in transaction")
  ELSE LET p == JSONparse(tx.data.p)
           v == JSONparse(tx.data.v)
           t == JSONparse(tx.data.t)
           w == JSONparse(tx.data.w)
           h == JSONparse(tx.data.h)
       IN  IF p.ok /\ v.ok /\ t.ok /\ w.ok /\ h.ok
           THEN [verified |-> TRUE, error |-> "", wolf |-> w.string,
                 resultHash |-> h.string, timestamp |-> tx.data.ts]
           ELSE NotVerified("error.message")

\* logHunt returns: the entry is pushed to the hunt log and saved
HuntReturns(h, c, signature, success) ==
  LET call   == h.calls[c]
      entry  == [huntData |-> call.huntData, signature |-> signature]
      pushed == Append(h.huntLog, entry)
  IN  [h EXCEPT !.calls[c] = NoHunt,
                !.huntLog = pushed,
                !.file = pushed,
                !.returned = Append(@, [success |-> success,
                                        signature |-> signature,
                                        resultHash |-> call.huntData.resultHash,
                                        wolfType |-> call.wolfType,
                                        result |-> call.result,
                                        timestamp |-> call.huntData.timestamp])]

\* logHunt(wolfType, mission, result), up to `await getLatestBlockhash()`
LogHunt(c, wolfType, mission, result) ==
  /\ FreeCall(hunts.calls, c)
  /\ hunts.logged < MaxHunts
  /\ LET timestamp  == hunts.now
         resultHash == hashHunt(result)
         huntData   == [id |-> <<"hunt-", timestamp>>, wolf |-> wolfType,
                        mission |-> substring(mission, 100),
                        resultHash |-> resultHash, timestamp |-> timestamp]
     IN  hunts' = [hunts EXCEPT
                     !.logged = @ + 1,
                     !.calls[c] = [pc |-> "blockhash", wolfType |-> wolfType,
                                   result |-> result, huntData |-> huntData,
                                   memo |-> MemoOf(wolfType, resultHash,
                                                   timestamp)]]
  /\ UNCHANGED <<server, treasury, executor, second, recovered, agent>>

\* getLatestBlockhash answers or throws
BlockhashAnswer(c, ok) ==
  /\ hunts.calls[c].pc = "blockhash"
  /\ hunts' = IF ok THEN [hunts EXCEPT !.calls[c].pc = "send"]
              ELSE HuntReturns(hunts, c, "", FALSE)
  /\ UNCHANGED <<server, treasury, executor, second, recovered, agent>>

\* sendAndConfirmTransaction resolves with the signature ("confirmed"),
\* throws before the transaction is on chain ("failed"), or throws after it
\* was sent, the confirmation having timed out ("unconfirmed")
MemoAnswer(c, outcome) ==
  /\ hunts.calls[c].pc = "send"
  /\ LET signature == "sig-" \o ToString(Len(hunts.chain))
         tx        == [signature |-> signature, memo |-> TRUE,
                       data |-> MemoBytes(hunts.calls[c].memo)]
         onChain   == IF outcome = "failed" THEN hunts
                      ELSE [hunts EXCEPT !.chain = Append(@, tx)]
     IN  hunts' = IF outcome = "confirmed"
                  THEN HuntReturns(onChain, c, signature, TRUE)
                  ELSE HuntReturns(onChain, c, "", FALSE)
  /\ UNCHANGED <<server, treasury, executor, second, recovered, agent>>

\* the signatures one may ask about: those on chain and one that is not
Signatures ==
  { hunts.chain[i].signature : i \in 1..Len(hunts.chain) } \cup {"sig-none"}

\* what getTransaction may answer for a signature
ChainAnswers(signature) ==
  {"null", "throws"}
    \cup { "found" : i \in { j \in 1..Len(hunts.chain) :
                               hunts.chain[j].signature = signature } }

\* the transaction of that signature on chain
ChainTx(signature) ==
  LET hits == { i \in 1..Len(hunts.chain) :
                  hunts.chain[i].signature = signature }
  IN  IF hits = {} THEN [signature |-> signature, memo |-> FALSE, data |-> <<>>]
      ELSE hunts.chain[CHOOSE i \in hits : TRUE]

\* verifyHunt(signature): nothing is read before getTransaction answers, so
\* the call and the segment after the await are one step
VerifyHunt(signature, answer) ==
  /\ Len(hunts.verifications) < MaxVerifications
  /\ hunts' = [hunts EXCEPT !.verifications =
                 Append(@, [signature |-> signature, answer |-> answer,
                            result |-> verifyHunt(answer, ChainTx(signature))])]
  /\ UNCHANGED <<server, treasury, executor, second, recovered, agent>>

HuntTick ==
  /\ hunts.now < MaxHuntTicks
  /\ hunts' = [hunts EXCEPT !.now = @ + 1]
  /\ UNCHANGED <<server, treasury, executor, second, recovered, agent>>

InitHunts ==
  /\ ServerIdle
  /\ treasury = TreasuryWolfInit(0)
  /\ executor = ExecutorInit
  /\ second = SecondInit
  /\ hunts = HuntsInit
  /\ recovered = RecoveredInit
  /\ agent = NoAgent

HuntLogged ==
  \E c \in Calls, wolfType \in WolfTypes, mission \in Missions,
     result \in HuntResults :
    LogHunt(c, wolfType, mission, result)

BlockhashRead == \E c \in Calls, ok \in BOOLEAN : BlockhashAnswer(c, ok)

MemoSent ==
  \E c \in Calls, outcome \in {"confirmed", "failed", "unconfirmed"} :
    MemoAnswer(c, outcome)

HuntVerified ==
  \E signature \in Signatures : \E answer \in ChainAnswers(signature) :
    VerifyHunt(signature, answer)

NextHunts ==
  \/ HuntLogged
  \/ BlockhashRead
  \/ MemoSent
  \/ HuntVerified
  \/ HuntTick

SpecHunts == InitHunts /\ [][NextHunts]_vars

\* the verifications of the signature a successful logHunt returned
VerifiedHunts ==
  { <<i, j>> \in (1..Len(hunts.returned)) \X (1..Len(hunts.verifications)) :
      /\ hunts.returned[i].success
      /\ hunts.verifications[j].signature = hunts.returned[i].signature }

\* the result hash is the hash of the result text alone
HashOfResultAlone ==
  \A i, j \in 1..Len(hunts.returned) :
    hunts.returned[i].result = hunts.returned[j].result
      => hunts.returned[i].resultHash = hunts.returned[j].resultHash

\* C16 as stated: every verifyHunt(s) of the signature s of a successful
\* logHunt(wolfType, mission, result) returns verified:true with wolf =
\* wolfType and resultHash = the hash logHunt returned, which is the hash of
\* the result text alone.
C16_VerifyAlwaysSucceeds ==
  /\ HashOfResultAlone
  /\ \A pair \in VerifiedHunts :
       LET hunt   == hunts.returned[pair[1]]
           result == hunts.verifications[pair[2]].result
       IN  /\ result.verified
           /\ result.wolf = hunt.wolfType
           /\ result.resultHash = hunt.resultHash

\* C16: whenever the RPC node hands verifyHunt(s) the transaction of a
\* successful logHunt(wolfType, mission, result), verifyHunt returns
\* verified:true with wolf = wolfType and resultHash = the hash logHunt
\* returned, and that hash is the hash of the result text alone.
C16_ProofRoundTrips ==
  /\ HashOfResultAlone
  /\ \A pair \in VerifiedHunts :
       LET hunt         == hunts.returned[pair[1]]
           verification == hunts.verifications[pair[2]]
       IN  verification.answer = "found"
             => /\ verification.result.verified
                /\ verification.result.wolf = hunt.wolfType
                /\ verification.result.resultHash = hunt.resultHash

\* a hunt by a wolf type with a quote in it and one by a lone surrogate
\* were logged with the same result text at different times, and the proof
\* of the first was fetched and verified
C16_QuotedWolfVerified ==
  /\ \E pair \in VerifiedHunts :
       /\ hunts.verifications[pair[2]].answer = "found"
       /\ hunts.returned[pair[1]].wolfType = <<Quote, "s">>
       /\ hunts.verifications[pair[2]].result.wolf = <<Quote, "s">>
  /\ \E i, j \in 1..Len(hunts.returned) :
       /\ hunts.returned[i].success /\ hunts.returned[j].success
       /\ hunts.returned[i].result = hunts.returned[j].result
       /\ hunts.returned[i].timestamp # hunts.returned[j].timestamp

(***************************************************************************)
(* Key recovery on the PaymentGate: recoverKey(txSignature) and            *)
(* recoverByWallet(walletAddress), called beside purchases and spending.   *)
(***************************************************************************)
\* the purchase requests and the recovery calls of a run
MaxRecoverRequests == 2
MaxRecoveries == 2
\* the credits spent in such a run
MaxSpent == 2

\* what a recovery call returned
Answer(asked, result) ==
  [asked |-> asked, success |-> result.success, apiKey |-> result.apiKey,
   credits |-> result.credits]

\* paymentGate.recoverKey(txSignature) up to its fetch, or to its return
\* when the signature is in txToKey
RecoverKeyCall(c, txSignature) ==
  /\ FreeCall(recovered.calls, c)
  /\ recovered.made < MaxRecoveries
  /\ recovered' =
       IF Lookup(keys.txToKey, txSignature) # ""
       THEN [recovered EXCEPT
               !.made = @ + 1,
               !.byTx = Answer(txSignature,
                               recoverKeyMapped(keys, txSignature))]
       ELSE [recovered EXCEPT
               !.made = @ + 1,
               !.calls[c] = [pc |-> "rpc", txSignature |-> txSignature]]
  /\ UNCHANGED <<server, treasury, executor, second, hunts, agent>>

\* the RPC answers: the rest of recoverKey
RecoverKeyAnswer(c, answer) ==
  /\ recovered.calls[c].pc = "rpc"
  /\ LET txSignature == recovered.calls[c].txSignature
         result      == recoverKeyFetched(keys, txSignature, answer)
     IN  /\ keys' = result.keys
         /\ files' = IF result.saved THEN [files EXCEPT !.keys = result.keys]
                     ELSE files
         /\ recovered' = [recovered EXCEPT
                            !.calls[c] = NoRecovery,
                            !.byTx = Answer(txSignature, result)]
  /\ UNCHANGED <<config, registry, board, commerce, agentDirectory, feed,
                 registrationAttempts, reqs, sent, lastStatus, served,
                 registrations, treasury, executor, second, hunts, agent>>

\* paymentGate.recoverByWallet(walletAddress)
RecoverByWalletCall(walletAddress) ==
  /\ recovered.made < MaxRecoveries
  /\ recovered' = [recovered EXCEPT
                     !.made = @ + 1,
                     !.byWallet = Answer(walletAddress,
                                         recoverByWallet(keys, walletAddress))]
  /\ UNCHANGED <<server, treasury, executor, second, hunts, agent>>

RecoverKeyCalled ==
  \E c \in Calls, txSignature \in {"tA", "tB", "tE"} :
    RecoverKeyCall(c, txSignature)

RecoverKeyFetched ==
  \E c \in Calls :
    \E answer \in RpcAnswers(recovered.calls[c].txSignature) :
      RecoverKeyAnswer(c, answer)

RecoverByWalletCalled ==
  \E walletAddress \in Wallets : RecoverByWalletCall(walletAddress)

Spend ==
  /\ \A i \in 1..Len(keys.issued) : keys.issued[i].totalUsed < MaxSpent
  /\ UseCredits("rml_1", "wolf_spawn")

NextRecover ==
  \/ Purchase(MaxRecoverRequests, {"tA", "tB"})
  \/ RpcAnswer
  \/ Spend
  \/ RecoverKeyCalled
  \/ RecoverKeyFetched
  \/ RecoverByWalletCalled

SpecRecover == Init /\ [][NextRecover]_vars

\* C17: in every reachable state, for every active key K and every
\* signature tx whose purchase was credited to K (paid by K's wallet w),
\* recoverKey(tx), whatever the RPC would answer, and recoverByWallet(w)
\* succeed and return K with K's current credits; and every recovery call
\* that returned a key returned that key's wallet's or signature's key.
C17_RecoveryRoundTrips ==
  /\ \A i \in 1..Len(keys.issued) :
       LET record == keys.issued[i]
       IN  record.status = "active" =>
             /\ \A tx \in Range(record.txHistory) :
                  \A answer \in RpcAnswers(tx) :
                    LET result == recoverKey(keys, tx, answer)
                    IN  /\ result.success
                        /\ result.apiKey = record.apiKey
                        /\ result.credits = record.credits
             /\ LET result == recoverByWallet(keys, record.payerWallet)
                IN  /\ result.success
                    /\ result.apiKey = record.apiKey
                    /\ result.credits = record.credits
  /\ recovered.byTx.success =>
       \E i \in 1..Len(keys.issued) :
         /\ keys.issued[i].apiKey = recovered.byTx.apiKey
         /\ \/ recovered.byTx.asked \in Range(keys.issued[i].txHistory)
            \/ Ledger(recovered.byTx.asked).accountKeys[1]
                 = keys.issued[i].payerWallet
  /\ recovered.byWallet.success =>
       \E i \in 1..Len(keys.issued) :
         /\ keys.issued[i].apiKey = recovered.byWallet.apiKey
         /\ keys.issued[i].payerWallet = recovered.byWallet.asked

\* w1 bought a key with tA, topped it up with tB and spent a credit; the
\* key was then recovered by the top-up's signature and by the wallet, both
\* returning the balance of that moment
C17_RecoveredAfterTopUp ==
  /\ Len(keys.issued) = 1
  /\ keys.issued[1].txHistory = <<"tA", "tB">>
  /\ keys.issued[1].totalUsed = 1
  /\ recovered.byTx = [asked |-> "tB", success |-> TRUE,
                       apiKey |-> keys.issued[1].apiKey,
                       credits |-> keys.issued[1].credits]
  /\ recovered.byWallet = [asked |-> "w1", success |-> TRUE,
                           apiKey |-> keys.issued[1].apiKey,
                           credits |-> keys.issued[1].credits]

(***************************************************************************)
(* Access over the life of a deployment: purchases, spending down to no    *)
(* credits, and restarts of the server over the files it wrote.            *)
(***************************************************************************)
\* the process is started again: every service loads its file, what was
\* held in memory only (requests in flight, registration attempts, the
\* agent directory) starts afresh
Restart ==
  /\ keys' = loadKeys(files.keys)
  /\ registry' = files.packs
  /\ board' = files.bounties
  /\ commerce' = files.commerce
  /\ feed' = files.activity
  /\ agentDirectory' = AGENT_DIRECTORY
  /\ registrationAttempts' = [ip \in IPs |-> <<>>]
  /\ reqs' = [r \in Slots |-> Idle]
  /\ UNCHANGED <<config, files, sent, lastStatus, served, registrations,
                 scripts>>

NextAccess ==
  \/ Purchase(MaxPurchases, {"tA", "tD"})
  \/ RpcAnswer
  \/ UseCreditsCalled
  \/ Restart

SpecAccess == Init /\ [][NextAccess]_vars

\* C18: no step revokes, expires or removes a key: after every step each
\* key issued so far, and each key the step issues, is authorized by
\* checkAuth when presented as a Bearer token or as x-api-key, whatever its
\* credit balance.
C18_IssuedKeysStayAuthorized ==
  [][/\ IssuedKeys \subseteq IssuedKeys'
     /\ \A k \in IssuedKeys' :
          /\ checkAuth(Bearer(k))'
          /\ checkAuth(XApiKey(k))']_vars

\* a key bought with 0.05 SOL has spent all of its 25 credits and is still
\* authorized
C18_DrainedKeyAuthorized ==
  \E i \in 1..Len(keys.issued) :
    /\ keys.issued[i].credits = 0
    /\ keys.issued[i].totalUsed = 25
    /\ checkAuth(Bearer(keys.issued[i].apiKey))
    /\ ~useCredits(keys, masterKey, keys.issued[i].apiKey,
                   "wolf_spawn").success

(***************************************************************************)
(* The bounty board behind its four routes, with requests that overlap.    *)
(***************************************************************************)
\* the requests of a run of the bounty routes
MaxBoardRequests == 5

\* no key, or the master key
BoardHeaders == {NoHeaders, Bearer("master-secret")}

WolfNames == {"wolf-1", "wolf-2"}

\* body.wolfWallet: absent, or a wallet
WolfWallets == {"", "wallet-1", "wallet-2"}

BountyPosted ==
  \E r \in Slots, headers \in BoardHeaders :
    /\ sent < MaxBoardRequests
    /\ BountyRequest(r, headers, Body(TRUE, "find alpha", "scout the chain", ""))

BountyClaimed ==
  \E r \in Slots, headers \in BoardHeaders, bountyId \in BountyIds,
     wolfId \in WolfNames, wolfWallet \in WolfWallets :
    /\ sent < MaxBoardRequests
    /\ ClaimRequest(r, headers, Body(TRUE, bountyId, wolfId, wolfWallet))

\* body.proof: absent, with data, or without
Proofs == {"", ProofWithData, ProofWithoutData}

CompletionSubmitted ==
  \E r \in Slots, headers \in BoardHeaders, bountyId \in BountyIds,
     wolfId \in WolfNames, proof \in Proofs :
    /\ sent < MaxBoardRequests
    /\ SubmitRequest(r, headers, Body(TRUE, bountyId, wolfId, proof))

CompletionVerified ==
  \E r \in Slots, headers \in BoardHeaders, bountyId \in BountyIds,
     approved \in {"true", "false"} :
    /\ sent < MaxBoardRequests
    /\ VerifyRequest(r, headers, Body(TRUE, bountyId, approved, ""))

NextBoard ==
  \/ BountyPosted
  \/ BountyBodyArrives
  \/ BountyClaimed
  \/ ClaimBodyArrives
  \/ CompletionSubmitted
  \/ SubmitBodyArrives
  \/ CompletionVerified
  \/ VerifyBodyArrives
  \/ Tick

SpecBoard == Init /\ [][NextBoard]_vars

\* who holds the bounty: claimedBy, claimedWallet, claimedAt
Claimant(bounty) ==
  <<bounty.claimedBy, bounty.claimedWallet, bounty.claimedAt>>

\* C20: before and after every step, claimBounty succeeds on a bounty
\* exactly when its status is 'open' (for any wolf and wallet); no step
\* removes a bounty or reopens one that is not open; and claimedBy,
\* claimedWallet and claimedAt change only in a step that takes the bounty
\* from 'open' to 'claimed', so never again after a successful claim.
C20_ClaimedOnce ==
  [][/\ Len(board'.bounties) >= Len(board.bounties)
     /\ \A i \in 1..Len(board.bounties) :
          LET before == board.bounties[i]
              after  == board'.bounties[i]
          IN  /\ after.id = before.id
              /\ \A wolfId \in WolfNames, wolfWallet \in WolfWallets :
                   /\ claimBounty(board, before.id, wolfId, wolfWallet,
                                  now).success
                        <=> before.status = "open"
                   /\ claimBounty(board', after.id, wolfId, wolfWallet,
                                  now').success
                        <=> after.status = "open"
              /\ before.status # "open" =>
                   /\ after.status # "open"
                   /\ Claimant(after) = Claimant(before)
              /\ Claimant(after) # Claimant(before) =>
                   /\ before.status = "open"
                   /\ after.status = "claimed"]_vars

\* wolf-1 claimed the bounty at time 0 with wallet-1; later, the bounty
\* meanwhile completed, a claim of wolf-2 for it is on its way
C20_SecondClaimArrives ==
  /\ now > 0
  /\ Len(board.bounties) = 1
  /\ board.bounties[1].status = "completed"
  /\ Claimant(board.bounties[1]) = <<"wolf-1", "wallet-1", <<0>>>>
  /\ \E r \in Slots :
       /\ reqs[r].route = "POST /bounties/claim"
       /\ reqs[r].pc = "body"
       /\ reqs[r].body.arg = board.bounties[1].id
       /\ reqs[r].body.arg2 = "wolf-2"

\* the steps of the lifecycle, and the dispute that ends it
Lifecycle ==
  { <<"open", "claimed">>, <<"claimed", "pending_verification">>,
    <<"pending_verification", "completed">>,
    <<"pending_verification", "disputed">> }

\* the step answers a submission of that wolf for that bounty
SubmittedBy(bountyId, wolfId) ==
  \E r \in Slots :
    /\ reqs[r].route = "POST /bounties/submit"
    /\ reqs[r].pc = "body"
    /\ reqs'[r] = Idle
    /\ reqs[r].body.arg = bountyId
    /\ reqs[r].body.arg2 = wolfId

\* C21: every step that changes a bounty's status is a step of the
\* lifecycle open -> claimed -> pending_verification -> completed (or
\* disputed); a bounty leaves 'claimed' only by a submission of the wolf
\* in claimedBy; and every bounty that is completed after a step, failed
\* and thrown calls included, has a recorded proof.
C21_CompletedThroughLifecycle ==
  [][\A i \in 1..Len(board.bounties) :
       LET before == board.bounties[i]
           after  == board'.bounties[i]
       IN  /\ after.status # before.status =>
                <<before.status, after.status>> \in Lifecycle
           /\ before.status = "claimed" /\ after.status # "claimed" =>
                SubmittedBy(before.id, before.claimedBy)
           /\ after.status = "completed" => after.proof # ""]_vars

(***************************************************************************)
(* The BountyBoard used as a library (src/sdk/bounty-board.js): one        *)
(* instance over an empty bounties.json, and its four mutating methods     *)
(* called in any order with any arguments.  Rewards are whole SOL.         *)
(***************************************************************************)
MaxBounties == 3

\* bountyConfig.reward: absent (|| 0), or an amount
Rewards == {0, 1, 2}

\* a bounty id of the board, or one it does not know
CallIds == BountyIds \cup {"bounty-unknown"}

\* saveRegistry() after a call that returned success
SavedAfter(result) ==
  IF result.success THEN writeFileSync(files, "bounties", result.board)
  ELSE files

BoardCalled(result) ==
  /\ board' = result.board
  /\ files' = SavedAfter(result)
  /\ UNCHANGED <<config, keys, registry, commerce, agentDirectory, feed,
                 registrationAttempts, reqs, sent, lastStatus, served,
                 registrations, scripts>>

PostBountyCall ==
  \E reward \in Rewards :
    /\ Len(board.bounties) < MaxBounties
    /\ BoardCalled([board |-> postBounty(board, "find alpha", reward),
                    success |-> TRUE, threw |-> FALSE])

ClaimBountyCall ==
  \E bountyId \in CallIds, wolfId \in WolfNames :
    BoardCalled(claimBounty(board, bountyId, wolfId, "", now))

SubmitCompletionCall ==
  \E bountyId \in CallIds, wolfId \in WolfNames, proof \in Proofs :
    BoardCalled(submitCompletion(board, bountyId, wolfId, proof))

VerifyCompletionCall ==
  \E bountyId \in CallIds, approved \in BOOLEAN :
    BoardCalled(verifyCompletion(board, bountyId, "admin", approved))

NextLedger ==
  \/ PostBountyCall
  \/ ClaimBountyCall
  \/ SubmitCompletionCall
  \/ VerifyCompletionCall

SpecLedger == Init /\ [][NextLedger]_vars

\* the counters of a registry agree with its bounties
Accounted(saved) ==
  /\ getStats(saved).totalBounties = Len(saved.bounties)
  /\ getStats(saved).completedBounties = CountOf(saved.bounties, "completed")
  /\ getStats(saved).totalPaidOut = RewardsOf(saved.bounties, "completed")

MaxSpawns == 3
MaxBalance == 2

\* config.budget: absent, or an amount
Budgets == {0, 1, 2}

\* config.treasury: none, or a treasury holding 0..MaxBalance
Treasuries == {NoTreasury} \cup { Funded(amount) : amount \in 0..MaxBalance }

\* new ATPAgent({ treasury })
Construct ==
  /\ ~agent.constructed
  /\ \E t \in Treasuries :
       agent' = [agent EXCEPT !.constructed = TRUE, !.treasury = t]
  /\ UNCHANGED <<server, treasury, executor, second, hunts, recovered>>

SpawnCall(c, budget) ==
  /\ agent.constructed
  /\ agent.calls[c] = NoSpawn
  /\ agent.made < MaxSpawns
  /\ agent' =
       IF budget # 0 /\ agent.treasury.configured
       THEN [agent EXCEPT
               !.made = @ + 1,
               !.calls[c] = [pc |-> "checkBudget", budget |-> budget,
                             canSpend |-> checkBudget(agent.treasury,
                                                      budget)]]
       ELSE [agent EXCEPT
               !.made = @ + 1,
               !.spawnHistory = factorySpawn(@, "research", budget),
               !.calls[c] = [pc |-> "factory", budget |-> budget,
                             canSpend |-> TRUE]]
  /\ UNCHANGED <<server, treasury, executor, second, hunts, recovered>>

SpawnCheck(c) ==
  /\ agent.calls[c].pc = "checkBudget"
  /\ agent' =
       IF ~agent.calls[c].canSpend
       THEN [agent EXCEPT !.calls[c] = NoSpawn]
       ELSE [agent EXCEPT
               !.spawnHistory = factorySpawn(@, "research",
                                             agent.calls[c].budget),
               !.calls[c].pc = "factory"]
  /\ UNCHANGED <<server, treasury, executor, second, hunts, recovered>>

SpawnReturn(c) ==
  /\ agent.calls[c].pc = "factory"
  /\ agent' = [agent EXCEPT
                 !.metrics.totalSpawned = @ + 1,
                 !.metrics.totalSpent = @ + agent.calls[c].budget,
                 !.calls[c] = NoSpawn]
  /\ UNCHANGED <<server, treasury, executor, second, hunts, recovered>>

SpawnCalled == \E c \in Calls, budget \in Budgets : SpawnCall(c, budget)

SpawnChecked == \E c \in Calls : SpawnCheck(c)

SpawnReturns == \E c \in Calls : SpawnReturn(c)

NextAgent ==
  \/ Construct
  \/ SpawnCalled
  \/ SpawnChecked
  \/ SpawnReturns

SpecAgent == Init /\ [][NextAgent]_vars

\* the step in which the spawn call of slot c returns its result
Spawned(c) == agent.calls[c].pc = "factory" /\ agent'.calls[c] = NoSpawn

\* the step in which the spawn call of slot c throws
Refused(c) == agent.calls[c].pc = "checkBudget" /\ agent'.calls[c] = NoSpawn

\* a spawn with a budget returns only if the agent's treasury holds the
\* budget
SpawnedWithinBalance ==
  [][\A c \in Calls :
       Spawned(c) /\ agent.calls[c].budget # 0 /\ agent.treasury.configured
         => agent.treasury.balance >= agent.calls[c].budget]_vars

\* a spawn throws only for a budget above the balance, and the throwing
\* step leaves the metrics and the spawn history as they were
RefusedUnchanged ==
  [][\A c \in Calls :
       Refused(c) =>
         /\ agent.treasury.balance < agent.calls[c].budget
         /\ agent'.metrics = agent.metrics
         /\ agent'.spawnHistory = agent.spawnHistory]_vars

\* the budgets handed out stay within the treasury's balance
AllocatedWithinBalance ==
  agent.treasury.configured =>
    agent.metrics.totalSpent <= agent.treasury.balance

====
